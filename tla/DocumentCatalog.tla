-------------------------- MODULE DocumentCatalog --------------------------
(***************************************************************************)
(* What ingestion promises: every synchronisation or upload takes effect   *)
(* at one instant, with all of its files or with none, on the catalog as   *)
(* it is at that instant.  A file without a document gets one; a document  *)
(* whose latest version has other content gets the next version; one with  *)
(* the same content is left alone.  Concurrent ingestions therefore look   *)
(* as if they ran one after the other.                                     *)
(*                                                                         *)
(* A deletion takes no lock, so an ingestion may also take effect on a     *)
(* document deleted since it was looked up (outdated, below), and on no    *)
(* other that is deleted.                                                  *)
(***************************************************************************)
EXTENDS Naturals, Sequences

CONSTANTS
  NumPaths,  \* number of paths, in the order in which they are listed
  Contents,  \* what a file may hold
  NoContent, \* of a path that the ingestion does not have
  Ingests    \* synchronisations and uploads

VARIABLES
  docs,  \* [Paths -> Seq(Document)]: the documents of a path, oldest first
  batch, \* [Ingests -> [Paths -> Contents \cup {NoContent}]]: the files it read
  outdated \* [Ingests -> SUBSET Paths]: those whose document it had looked up
           \* when that was deleted

vars == <<docs, batch, outdated>>

Paths == 1..NumPaths
Batches == [Paths -> Contents \cup {NoContent}]
NoFiles == [p \in Paths |-> NoContent]

Init ==
  /\ docs = [p \in Paths |-> <<>>]
  /\ batch = [s \in Ingests |-> NoFiles]
  /\ outdated = [s \in Ingests |-> {}]

IsLive(p) == docs[p] # <<>> /\ ~docs[p][Len(docs[p])].deleted

\* an ingestion reads some of its files
Submit(s) ==
  /\ batch' \in [Ingests -> Batches]
  /\ \A r \in Ingests \ {s} : batch'[r] = batch[r]
  /\ UNCHANGED <<docs, outdated>>

\* nothing is left of an ingestion that ends
Clear(s) ==
  /\ batch' = [batch EXCEPT ![s] = NoFiles]
  /\ outdated' = [outdated EXCEPT ![s] = {}]

Withdraw(s) == Clear(s) /\ UNCHANGED docs

Created(p, content) ==
  Append(docs[p],
         [deleted |-> FALSE,
          versions |-> <<[number |-> 1, content |-> content]>>])

Revised(p, content) ==
  LET doc == docs[p][Len(docs[p])]
      latest == doc.versions[Len(doc.versions)]
      next == [number |-> latest.number + 1, content |-> content]
  IN IF latest.content = content
     THEN docs[p]
     ELSE [docs[p] EXCEPT ![Len(docs[p])].versions = Append(doc.versions, next)]

Apply(s) ==
  /\ docs' = [p \in Paths |->
       IF batch[s][p] = NoContent THEN docs[p]
       ELSE IF IsLive(p) \/ p \in outdated[s] THEN Revised(p, batch[s][p])
       ELSE Created(p, batch[s][p])]
  /\ Clear(s)

\* A user deletes the document of a path under ingestions, some of which have
\* looked it up.
Delete(p) ==
  /\ IsLive(p)
  /\ docs' = [docs EXCEPT ![p][Len(docs[p])].deleted = TRUE]
  /\ \E S \in SUBSET {s \in Ingests : batch[s][p] # NoContent} :
       outdated' = [s \in Ingests |->
                      IF s \in S THEN outdated[s] \cup {p} ELSE outdated[s]]
  /\ UNCHANGED batch

Next ==
  \/ \E s \in Ingests : Submit(s) \/ Withdraw(s) \/ Apply(s)
  \/ \E p \in Paths : Delete(p)

Spec == Init /\ [][Next]_vars
=============================================================================
