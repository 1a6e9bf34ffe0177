--------------------------- MODULE FallbackUploader ---------------------------
(***************************************************************************)
(* The FallbackUploader of crates/termproof/src/evidence/uploader.rs: the  *)
(* stores are tried in order, each with its own outcome. A message that    *)
(* joins the messages of several stores is the sequence of them.           *)
(***************************************************************************)
EXTENDS Naturals, Sequences

CONSTANTS
  Stores,     \* how many uploaders the chain has
  Messages,   \* what a store may say of a failure
  Url, Silent \* the outcomes of one store beside a message

ASSUME UploaderAssumption ==
  /\ Stores \in Nat
  /\ Url # Silent /\ {Url, Silent} \cap Messages = {}

VARIABLES
  lastError,  \* <<>> for None
  degraded    \* the distinct messages survived, in order

uploaderVars == <<lastError, degraded>>

Outcomes == [1..Stores -> Messages \cup {Url, Silent}]

NoUrlMessage == <<"all uploaders returned no URL">>

UploaderInit == lastError = <<>> /\ degraded = <<>>

\* The stores asked: up to the first that answers with a URL.
Asked(outcomes) == {i \in 1..Stores : \A j \in 1..(i - 1) : outcomes[j] # Url}
Uploaded(outcomes) == \E i \in 1..Stores : outcomes[i] = Url
ErrorsOf(outcomes) ==
  SelectSeq([i \in 1..Stores |-> IF i \in Asked(outcomes) THEN outcomes[i] ELSE Url],
            LAMBDA o : o \in Messages)

RecordDegraded(message) ==
  degraded' = IF message # <<>> /\ \A i \in 1..Len(degraded) : degraded[i] # message
              THEN Append(degraded, message) ELSE degraded

Upload(outcomes) ==
  IF Uploaded(outcomes)
  THEN RecordDegraded(ErrorsOf(outcomes)) /\ lastError' = <<>>
  ELSE /\ lastError' = IF ErrorsOf(outcomes) = <<>> THEN NoUrlMessage ELSE ErrorsOf(outcomes)
       /\ UNCHANGED degraded

=============================================================================
