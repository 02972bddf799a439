------------------------------- MODULE Answers -------------------------------
(***************************************************************************)
(* What the callers of the kernel are told: clients of the HTTP API        *)
(* (crates/jsonrtl-api/src/lib.rs: validate, compile_verilog), users of    *)
(* the command line (crates/jsonrtl-cli/src/main.rs: validate_command,     *)
(* compile_command), and programs that use the library with a document of  *)
(* their own.  The kernel's part is that of CompileVerilog.                *)
(*                                                                         *)
(* A request is answered once; what waits and what is cancelled is in      *)
(* WorkSlots.                                                              *)
(***************************************************************************)
EXTENDS CompileVerilog

\* Bound: the documents that come over HTTP too, and with other things amiss.
CONSTANT Tried(_)

VARIABLE caller  \* who asks, for what, with what text, and what is amiss with that

allVars == <<vars, caller>>

-----------------------------------------------------------------------------
(***************************************************************************)
(* What may be amiss apart from the document.                              *)
(***************************************************************************)
\* Found by the handler before any text is parsed, in this order.
Unreadable(by, asks) ==
  CASE by = "http"    -> {"media type", "body too long", "body cut off", "no text"}
    [] by = "cli"     -> {"unreadable", "no text"}
                           \cup (IF asks = "compile" THEN {"output exists"} ELSE {})
    [] by = "library" -> {}

\* Found by the parser before it looks for a version.
NoDocument == {"text too long", "no json"}

\* Found when there is something to be written.
Afterwards(by, asks) == IF by = "cli" /\ asks = "compile" THEN {"cannot write"} ELSE {}

Amiss(by, asks) ==
  Unreadable(by, asks) \cup Afterwards(by, asks)
    \cup (IF by = "library" THEN {} ELSE NoDocument)

AnswersInit ==
  /\ Init
  /\ \E by \in {"http", "cli", "library"}, asks \in {"validate", "compile"} :
       /\ by = "library" <=> notation = "typed"
       /\ \E fault \in {"none"} \cup Amiss(by, asks) :
            /\ by = "http" \/ fault # "none" => Tried(document)
            /\ fault # "none" => notation # "fraction"
            /\ caller = [by |-> by, asks |-> asks, text |-> notation, fault |-> fault]

-----------------------------------------------------------------------------
\* Nothing is read, or no document is in what was read.
Refuse ==
  /\ stage = "read"
  /\ caller.fault \in Unreadable(caller.by, caller.asks) \cup NoDocument
  /\ Stop(caller.fault)
  /\ UNCHANGED <<input, used, names, lines, entries, caller>>

\* Kernel::validate is all that was asked for.
Judge ==
  /\ stage = "validate" /\ caller.asks = "validate"
  /\ Stop(IF HasErrors(Report(document)) THEN "rejected" ELSE "valid")
  /\ UNCHANGED <<input, used, names, lines, entries, caller>>

Compile ==
  /\ IF stage = "read" THEN caller.fault \notin Unreadable(caller.by, caller.asks) \cup NoDocument
     ELSE caller.asks = "compile"
  /\ CompileStep
  /\ UNCHANGED caller

AllDone == stage = "done" /\ UNCHANGED allVars

AnswersNext == Refuse \/ Judge \/ Compile \/ AllDone

AnswersSpec == AnswersInit /\ [][AnswersNext]_allVars

-----------------------------------------------------------------------------
(***************************************************************************)
(* The answers, once the handler is done.                                  *)
(***************************************************************************)
\* classify_parse_error and the handlers.
Status ==
  CASE result \in {"valid", "compiled"} -> 200
    [] result = "rejected" -> IF caller.asks = "validate" THEN 200 ELSE 422
    [] result = "internal" -> 422
    [] result = "media type" -> 415
    [] result \in {"body too long", "text too long", "limits"} -> 413
    [] result \in {"no text", "no json", "version", "schema"} -> 400
    [] result \in {"body cut off", "deserialization"} -> 500

\* parse_failure and the commands.
ExitCode ==
  CASE result = "valid" -> 0
    [] result = "compiled" -> IF caller.fault = "cannot write" THEN 3 ELSE 0
    [] result \in {"text too long", "no json", "version", "schema", "limits", "rejected"} -> 2
    [] result \in {"unreadable", "no text", "output exists"} -> 3
    [] result \in {"deserialization", "internal"} -> 4

\* Whom the answer makes responsible.
Blamed ==
  CASE caller.by = "http" ->
         (CASE Status = 200 -> "nobody" [] Status = 500 -> "program" [] OTHER -> "caller")
    [] caller.by = "cli" ->
         (CASE ExitCode = 0 -> "nobody" [] ExitCode = 2 -> "caller"
            [] ExitCode = 3 -> "files"  [] ExitCode = 4 -> "program")
    [] caller.by = "library" ->
         (CASE result \in {"valid", "compiled"} -> "nobody"
            [] result = "rejected" -> "caller" [] result = "internal" -> "program")

\* Fault: `valid` is taken for `success`.
YesIfSuccess == Blamed = "nobody"

\* "success" of a compilation, "valid" of a validation.
Yes ==
  IF caller.by = "http" /\ caller.asks = "validate" THEN result = "valid"
  ELSE Blamed = "nobody"

-----------------------------------------------------------------------------
Accepted ==
  /\ caller.by # "library" => Parse(document, caller.text) = "ok"
  /\ ~HasErrors(Report(document))

\* Whoever asks, and for whatever, is told yes exactly if the document is one that
\* the kernel accepts and nothing else was amiss: what `validate` calls valid
\* compiles, to a whole text, and over HTTP as on the command line.  And the blame
\* is where it belongs: nobody is told of a defect of the program (500, exit code 4)
\* except when a body breaks off, or for a number written as 1.0, which the schema
\* lets pass and the typed model does not.
AnswersAreTrue ==
  stage = "done" =>
    /\ Yes <=> Accepted /\ caller.fault = "none"
    /\ Yes /\ caller.asks = "compile" => lines[Len(lines)].form = "endmodule"
    /\ Blamed = "program" =>
         caller.fault = "body cut off" \/ caller.text = "fraction"
    /\ Blamed = "files" =>
         caller.fault \in {"unreadable", "no text", "output exists", "cannot write"}
    /\ Blamed = "caller" =>
         caller.fault \in Unreadable("http", caller.asks) \cup NoDocument \/ ~Accepted
=============================================================================
