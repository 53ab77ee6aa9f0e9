------------------------------- MODULE Emission -------------------------------
(***************************************************************************)
(* write_openapi of src/lib.rs from end to end: the snapshot of requests   *)
(* is folded into a document, which goes to stdout or to a path that other *)
(* emissions write too.  A document is as long as what it documents.       *)
(***************************************************************************)
EXTENDS Document, OpenapiFile

CONSTANTS
  Me,           \* the emission of the document assembled here
  Argument,     \* what write_openapi is called with: [text, as]
  OtherLength,  \* the lengths of other emissions' documents
  MaxEmitted    \* bound: exchanges in a document that is emitted

ASSUME EmissionAssumption ==
  /\ Me \in Writer /\ OtherLength \subseteq Nat \ {0} /\ MaxEmitted \in Nat
  /\ Argument \subseteq [text : STRING, as : {"str", "path"}]

VARIABLES
  stdout,   \* the lengths of the documents printed
  asked     \* what write_openapi was called with, or None

emissionVars == <<reqVars, fileVars, stdout, asked>>

EmissionInit == ReqInit /\ FileInit /\ stdout = <<>> /\ asked = None

Documented == {r \in Op \X Status : byStatus[r].sample_count > 0}
DocumentLength == 1 + Cardinality(Documented)

\* Mutated form: a path that is "-" or empty is taken for stdout as well.
DashIsStdout(arg) == arg.text \in {"-", ""}

\* Destination::from: only a string can mean stdout.
IsStdout(arg) == arg.as = "str" /\ arg.text \in {"-", ""}

\* The loop of build_document; it shares nothing with the emissions of others,
\* so those are let in when it is over.
Folding ==
  /\ \A w \in Writer : emit[w] = "idle"
  /\ ReqNext
  /\ UNCHANGED <<fileVars, stdout, asked>>

\* println! holds the lock of stdout: a document is one line, whole.  It panics
\* if stdout cannot be written, and what then reached it is no document.
PrintLine(arg) ==
  /\ emit[Me] = "idle"
  /\ IsStdout(arg)
  /\ asked' = arg
  /\ \/ /\ stdout' = Append(stdout, DocumentLength)
        /\ emit' = [emit EXCEPT ![Me] = "ok"]
     \/ /\ stdout' = stdout
        /\ emit' = [emit EXCEPT ![Me] = "failed"]
  /\ UNCHANGED <<reqVars, file, length, offset, alone>>

WriteOpenapi(arg) ==
  /\ ~IsStdout(arg)
  /\ Begin(Me, DocumentLength)
  /\ asked' = arg
  /\ UNCHANGED <<reqVars, stdout>>

OthersBegin(w, n) ==
  /\ w # Me
  /\ Begin(w, n)
  /\ UNCHANGED <<reqVars, stdout, asked>>

Writing(w) == FileStep(w) /\ UNCHANGED <<reqVars, stdout, asked>>

EmissionNext ==
  \/ Folding
  \/ Len(seen) <= MaxEmitted /\ \E arg \in Argument : PrintLine(arg) \/ WriteOpenapi(arg)
  \/ Len(seen) <= MaxEmitted /\ \E w \in Writer, n \in OtherLength : OthersBegin(w, n)
  \/ \E w \in Writer : Writing(w)

EmissionSpec == EmissionInit /\ [][EmissionNext]_emissionVars

-----------------------------------------------------------------------------
(***************************************************************************)
(* An emission that returned Ok has delivered the whole document of the    *)
(* requests recorded, once, to where it was asked to: on stdout for "-" or *)
(* an empty string, and in a path of any name, if nobody else wrote that   *)
(* (src/lib.rs, Destination and write_openapi).                            *)
(***************************************************************************)
DocumentArrives ==
  emit[Me] = "ok" =>
    IF asked.as = "str" /\ asked.text \in {"-", ""} THEN stdout = <<DocumentLength>>
    ELSE /\ stdout = <<>>
         /\ alone[Me] => file = [i \in 1..DocumentLength |-> Me]

-----------------------------------------------------------------------------
\* Where the document goes is settled once, and what is asked for is printed
\* or not at all, or written at full length.
Destined ==
  IF emit[Me] = "idle" THEN stdout = <<>>
  ELSE IF IsStdout(asked)
  THEN \/ emit[Me] = "ok" /\ stdout = <<DocumentLength>>
       \/ emit[Me] = "failed" /\ stdout = <<>>
  ELSE stdout = <<>> /\ length[Me] = DocumentLength

\* What was recorded, where it goes, and what its writers left in the file.
DeliveryInv == ReqInv /\ FileInv /\ Destined

(***************************************************************************)
(* What build_document (src/openapi.rs) and write_openapi (src/lib.rs)     *)
(* maintain between the requests, the accumulators, the destination and    *)
(* the file: inductive, and enough for every property proved of them.      *)
(***************************************************************************)
EmissionInv == AssemblyInv /\ DeliveryInv
===============================================================================
