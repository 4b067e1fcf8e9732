------------------------------ MODULE Collectors ------------------------------
(***************************************************************************)
(* What the collectors of app/services/evidence make of the answers of     *)
(* other systems, and how evidence_store.py files it.                      *)
(*                                                                         *)
(* An answer is its kind and, when there is one, its status code.  A       *)
(* message is kept as far as the code looks at it: None, blank, or text.   *)
(* The message of a timeout of httpx is blank.                             *)
(***************************************************************************)
EXTENDS Naturals

CONSTANT Codes      \* HTTP status codes considered

\* The answers of a system that may also fail in the ways of S.
Answers(S) ==
  [kind : {"answered"}, code : Codes] \cup [kind : S, code : {0}]

Payload == [error : {"none", "blank", "text"},
            exists : {"yes", "no", "absent"}, code : Nat]

Found == [error |-> "none", exists |-> "yes", code |-> 0]
Missing == [error |-> "none", exists |-> "no", code |-> 0]
Failure(e) == [error |-> e, exists |-> "no", code |-> 0]

Message(a) == IF a.kind = "timeout" THEN "blank" ELSE "text"
Success(a) == a.kind = "answered" /\ a.code \in 200 .. 299

\* HttpProbeCollector.collect: any answer at all is a success, and redirects
\* are not followed.  The result does not say whether the target exists.
ProbePayload(a) ==
  [exists |-> "absent", code |-> a.code,
   error |-> IF a.kind = "answered" THEN "none" ELSE Message(a)]

\* KubernetesCollector.collect_deployment; ok says that the names are valid and
\* the cluster is configured, without which nothing is asked.
DeploymentPayload(ok, a) ==
  IF ~ok THEN Failure("text")
  ELSE IF Success(a) THEN Found
  ELSE IF a.kind = "answered" /\ a.code = 404 THEN Missing
  ELSE Failure(Message(a))

\* GitHubEvidenceCollector.collect_file; ok says that the URL names a repository.
FilePayload(ok, a) ==
  IF ~ok THEN Failure("text")
  ELSE IF Success(a) THEN Found
  ELSE IF a.kind = "answered" /\ a.code = 404 THEN Missing
  ELSE Failure("text")

(***************************************************************************)
(* EvidenceStore: one record for each collector and target, the last one   *)
(* that was filed.  A blank message is no error.                           *)
(***************************************************************************)
StatusOf(p) ==
  CASE p.error = "text" -> "collection_error"
    [] p.error # "text" /\ p.exists = "no" -> "not_found"
    [] OTHER -> "found"

Upserted(store, collector, target, p) ==
  [x \in DOMAIN store \cup {<<collector, target>>} |->
     IF x = <<collector, target>>
     THEN [status |-> StatusOf(p), error |-> p.error, code |-> p.code]
     ELSE store[x]]
=============================================================================
