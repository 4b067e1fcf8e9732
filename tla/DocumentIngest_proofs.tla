------------------------ MODULE DocumentIngest_proofs ------------------------
(***************************************************************************)
(* Theorems about DocumentIngest, for every number of files, contents,     *)
(* synchronisations, uploads, crashes and commits to the repository.       *)
(*                                                                         *)
(* The argument: an ingestion holds the lock of every file it has looked   *)
(* up, so what it read of that file's documents stays true, but for        *)
(* deletions, until it commits.                                            *)
(***************************************************************************)
EXTENDS DocumentIngest, SequenceTheorems, WellFoundedInduction, TLAPS

InUpsert == {"find", "create", "write"}
Working == {"next", "lock"} \cup InUpsert

\* the file at hand comes before all that are still to be upserted
AtIsFirst(s) ==
  /\ pc[s] \in {"lock"} \cup InUpsert => at[s] \in Paths /\ FirstOf(s, at[s])
  /\ pc[s] \notin {"lock"} \cup InUpsert => at[s] = 0

\* what a session has of a file, and its lock
HoldsWhatItFound(s) ==
  \A p \in Paths :
    /\ found[s][p] # 0 => lock[p] = s /\ batch[s][p] # NoContent
    /\ pc[s] \in InUpsert => lock[at[s]] = s
    /\ lock[p] = s => /\ pc[s] \in Working
                      /\ \A q \in todo[s] :
                           p < q \/ (pc[s] \in InUpsert /\ at[s] = p)
    /\ p \in made[s] \/ written[s][p] # <<>> => found[s][p] # 0
    /\ \A i \in Nat : <<p, i>> \in vlocks[s] => i # 0 /\ found[s][p] = i

\* which files have been looked up
Progress(s) ==
  /\ pc[s] \in Working =>
       \A p \in Paths :
         /\ p \in todo[s] => batch[s][p] # NoContent /\ written[s][p] = <<>>
         /\ p \notin todo[s] /\ batch[s][p] # NoContent => found[s][p] # 0
         /\ p \in todo[s] /\ found[s][p] # 0 => pc[s] = "write" /\ at[s] = p
  /\ pc[s] = "write" => found[s][at[s]] # 0

\* what a session read of a file's documents, and what it made of it
Latest(doc) == doc.versions[Len(doc.versions)]
LastDoc(p) == docs[p][Len(docs[p])]

IsUpserted(s, p) ==
  IF p \in made[s]
  THEN written[s][p] = <<[number |-> 1, content |-> batch[s][p]]>>
  ELSE \/ /\ written[s][p] = <<>>
          /\ Latest(LastDoc(p)).content = batch[s][p]
       \/ /\ written[s][p] = <<[number |-> Latest(LastDoc(p)).number + 1,
                                content |-> batch[s][p]]>>
          /\ Latest(LastDoc(p)).content # batch[s][p]

StillTrue(s) ==
  /\ \A p \in Paths : found[s][p] # 0 =>
       /\ p \in made[s] => FindsNone(p)
       /\ p \notin made[s] => docs[p] # <<>> /\ found[s][p] = Len(docs[p])
       /\ p \notin todo[s] => IsUpserted(s, p)
  /\ pc[s] = "create" => FindsNone(at[s])
  /\ pc[s] = "write" =>
       IF at[s] \in made[s]
       THEN seen[s] = 0
       ELSE seen[s] = Len(LastDoc(at[s]).versions)
  /\ pc[s] # "conflict"

SessionInv(s) ==
  /\ AtIsFirst(s)
  /\ HoldsWhatItFound(s)
  /\ Progress(s)
  /\ StillTrue(s)

\* only the newest document of a path may be live, and each has a version
DocsInv ==
  \A p \in Paths : \A i \in DOMAIN docs[p] :
    /\ docs[p][i].versions # <<>>
    /\ i < Len(docs[p]) => docs[p][i].deleted

IInv ==
  /\ TypeOK
  /\ DocsInv
  /\ \A s \in Ingests : SessionInv(s)

-----------------------------------------------------------------------------
(* What an action of another session leaves alone.                         *)

SameSession(r) ==
  /\ pc'[r] = pc[r]
  /\ batch'[r] = batch[r]
  /\ todo'[r] = todo[r]
  /\ at'[r] = at[r]
  /\ found'[r] = found[r]
  /\ made'[r] = made[r]
  /\ seen'[r] = seen[r]
  /\ written'[r] = written[r]
  /\ vlocks'[r] = vlocks[r]

SameLocks(r) == \A p \in Paths : lock'[p] = r <=> lock[p] = r

\* a deletion may change what a session has locked, and nothing else may
OnlyDeletions(p) ==
  /\ DOMAIN docs'[p] = DOMAIN docs[p]
  /\ Len(docs'[p]) = Len(docs[p])
  /\ docs'[p] = <<>> <=> docs[p] = <<>>
  /\ \A i \in DOMAIN docs[p] :
       /\ docs'[p][i].versions = docs[p][i].versions
       /\ docs[p][i].deleted => docs'[p][i].deleted

LEMMA LastInDomain ==
  ASSUME TypeOK, NEW p \in Paths, docs[p] # <<>>
  PROVE  Len(docs[p]) \in DOMAIN docs[p]
  <1>1. docs[p] \in Seq(Document)
    BY DEF TypeOK
  <1> QED BY <1>1, EmptySeq, LenProperties

LEMMA OthersKept ==
  ASSUME TypeOK, NEW r \in Ingests, SessionInv(r), SameSession(r), SameLocks(r),
         \A p \in Paths : lock[p] = r => OnlyDeletions(p)
  PROVE  SessionInv(r)'
  <1>1. AtIsFirst(r)'
    BY DEF SessionInv, AtIsFirst, SameSession, FirstOf
  <1>2. HoldsWhatItFound(r)'
    <2>1. pc[r] \in InUpsert => at[r] \in Paths
      BY DEF SessionInv, AtIsFirst
    <2> QED BY <2>1 DEF SessionInv, HoldsWhatItFound, SameSession, SameLocks
  <1>3. Progress(r)'
    BY DEF SessionInv, Progress, SameSession
  <1>4. StillTrue(r)'
    <2>1. ASSUME NEW p \in Paths, lock[p] = r
          PROVE  /\ FindsNone(p) => FindsNone(p)'
                 /\ docs[p] # <<>> => /\ LastDoc(p)'.versions = LastDoc(p).versions
                                     /\ Latest(LastDoc(p))' = Latest(LastDoc(p))
      BY <2>1, LastInDomain DEF OnlyDeletions, FindsNone, LastDoc, Latest
    <2>2. pc[r] \in InUpsert => at[r] \in Paths /\ lock[at[r]] = r
      BY DEF SessionInv, AtIsFirst, HoldsWhatItFound
    <2>3. ASSUME NEW p \in Paths, found'[r][p] # 0
          PROVE  (/\ p \in made[r] => FindsNone(p)
                  /\ p \notin made[r] => docs[p] # <<>> /\ found[r][p] = Len(docs[p])
                  /\ p \notin todo[r] => IsUpserted(r, p))'
      <3>0. found[r][p] # 0
        BY <2>3 DEF SameSession
      <3>1. lock[p] = r
        BY <3>0 DEF SessionInv, HoldsWhatItFound
      <3>2. OnlyDeletions(p)
        BY <3>1
      <3>3. /\ p \in made[r] => FindsNone(p)
            /\ p \notin made[r] => docs[p] # <<>> /\ found[r][p] = Len(docs[p])
            /\ p \notin todo[r] => IsUpserted(r, p)
        BY <3>0 DEF SessionInv, StillTrue
      <3>4. IsUpserted(r, p) => IsUpserted(r, p)'
        BY <2>1, <3>1, <3>3 DEF IsUpserted, SameSession
      <3> QED BY <2>1, <3>1, <3>2, <3>3, <3>4 DEF SameSession, OnlyDeletions
    <2>4. (pc[r] = "create" => FindsNone(at[r]))'
      BY <2>1, <2>2 DEF SessionInv, StillTrue, SameSession, InUpsert
    <2>5. (pc[r] = "write" =>
             IF at[r] \in made[r]
             THEN seen[r] = 0
             ELSE seen[r] = Len(LastDoc(at[r]).versions))'
      <3>1. pc[r] = "write" => found[r][at[r]] # 0 /\ at[r] \in Paths /\ lock[at[r]] = r
        BY <2>2 DEF SessionInv, Progress, InUpsert
      <3>2. pc[r] = "write" /\ at[r] \notin made[r] => docs[at[r]] # <<>>
        BY <3>1 DEF SessionInv, StillTrue
      <3> QED BY <2>1, <3>1, <3>2 DEF SessionInv, StillTrue, SameSession
    <2> QED BY <2>3, <2>4, <2>5 DEF SessionInv, StillTrue, SameSession
  <1> QED BY <1>1, <1>2, <1>3, <1>4 DEF SessionInv

-----------------------------------------------------------------------------
(* What the steps of a session keep.                                       *)

StepKeeps(s) ==
  /\ TypeOK'
  /\ SessionInv(s)'
  /\ \A r \in Ingests \ {s} : SameSession(r) /\ SameLocks(r)

LEMMA EndKeeps ==
  ASSUME TypeOK, NEW s \in Ingests, EndTransaction(s),
         NEW label \in {"fetch", "committed", "failed"}, Goto(s, label),
         UNCHANGED <<repo, pushes>>, docs' \in [Paths -> Seq(Document)],
         crashes' \in 0..MaxCrashes
  PROVE  StepKeeps(s)
  <1>1. TypeOK'
    <2>1. Files[s] \subseteq Paths /\ NoFiles \in [Paths -> Contents \cup {NoContent}]
      BY DocumentIngestAssumption DEF NoFiles
    <2>2. /\ lock' \in [Paths -> Ingests \cup {NoIngest}]
          /\ pc' \in [Ingests -> PC]
          /\ batch' \in [Ingests -> [Paths -> Contents \cup {NoContent}]]
          /\ todo' \in [Ingests -> SUBSET Paths]
          /\ at' \in [Ingests -> Paths \cup {0}]
          /\ made' \in [Ingests -> SUBSET Paths]
          /\ seen' \in [Ingests -> Nat]
          /\ vlocks' \in [Ingests -> SUBSET (Paths \X Nat)]
      BY <2>1 DEF TypeOK, EndTransaction, Goto, PC
    <2>3. found' \in [Ingests -> [Paths -> Nat]]
      BY DEF TypeOK, EndTransaction
    <2>4. written' \in [Ingests -> [Paths -> Seq(Version)]]
      BY EmptySeq DEF TypeOK, EndTransaction
    <2> QED BY <2>2, <2>3, <2>4 DEF TypeOK
  <1>2. /\ pc'[s] = label
        /\ at'[s] = 0
        /\ made'[s] = {}
        /\ vlocks'[s] = {}
        /\ \A p \in Paths : found'[s][p] = 0 /\ written'[s][p] = <<>> /\ lock'[p] # s
    BY DocumentIngestAssumption DEF TypeOK, EndTransaction, Goto
  <1>3. SessionInv(s)'
    BY <1>2 DEF SessionInv, AtIsFirst, HoldsWhatItFound, Progress, StillTrue,
                Working, InUpsert
  <1>4. ASSUME NEW r \in Ingests \ {s}
        PROVE  SameSession(r) /\ SameLocks(r)
    BY DocumentIngestAssumption
       DEF TypeOK, EndTransaction, Goto, SameSession, SameLocks
  <1> QED BY <1>1, <1>3, <1>4 DEF StepKeeps

LEMMA FetchKeeps ==
  ASSUME IInv, NEW s \in Ingests, FetchFile(s) \/ StartUpserts(s)
  PROVE  StepKeeps(s)
  <1>1. TypeOK'
    <2>1. /\ batch' \in [Ingests -> [Paths -> Contents \cup {NoContent}]]
          /\ todo' \in [Ingests -> SUBSET Paths]
          /\ pc' \in [Ingests -> PC]
      <3>1. CASE FetchFile(s)
        BY <3>1 DEF IInv, TypeOK, FetchFile
      <3>2. CASE StartUpserts(s)
        BY <3>2 DEF IInv, TypeOK, StartUpserts, Goto, PC
      <3> QED BY <3>1, <3>2
    <2>2. UNCHANGED <<repo, pushes, docs, lock, at, found, made, seen, written,
                      vlocks, crashes>>
      BY DEF FetchFile, StartUpserts
    <2> QED BY <2>1, <2>2 DEF IInv, TypeOK
  <1>2. pc[s] = "fetch"
    BY DEF FetchFile, StartUpserts
  <1>3. \A p \in Paths : found[s][p] = 0 /\ written[s][p] = <<>> /\ lock[p] # s
    BY <1>2 DEF IInv, SessionInv, HoldsWhatItFound, Working, InUpsert
  <1>4. UNCHANGED <<docs, lock, found, made, seen, written, vlocks>>
    BY DEF FetchFile, StartUpserts
  <1>5. pc'[s] \in {"fetch", "next"}
    BY <1>2 DEF FetchFile, StartUpserts, Goto, IInv, TypeOK
  <1>6. pc'[s] = "next" =>
          \A p \in Paths : p \in todo'[s] <=> batch'[s][p] # NoContent
    BY <1>2 DEF FetchFile, StartUpserts, Goto, IInv, TypeOK
  <1>7. SessionInv(s)'
    <2>1. AtIsFirst(s)'
      <3>1. at[s] = 0 /\ UNCHANGED at
        BY <1>2 DEF IInv, SessionInv, AtIsFirst, InUpsert, FetchFile, StartUpserts
      <3> QED BY <1>5, <3>1 DEF AtIsFirst, InUpsert
    <2>2. HoldsWhatItFound(s)'
      BY <1>3, <1>4, <1>5 DEF IInv, SessionInv, HoldsWhatItFound, Working, InUpsert
    <2>3. Progress(s)'
      BY <1>3, <1>4, <1>5, <1>6 DEF Progress, Working, InUpsert
    <2>4. StillTrue(s)'
      BY <1>3, <1>4, <1>5 DEF StillTrue
    <2> QED BY <2>1, <2>2, <2>3, <2>4 DEF SessionInv
  <1>8. ASSUME NEW r \in Ingests \ {s}
        PROVE  SameSession(r) /\ SameLocks(r)
    BY DEF IInv, TypeOK, FetchFile, StartUpserts, Goto, SameSession, SameLocks
  <1> QED BY <1>1, <1>7, <1>8 DEF StepKeeps

LEMMA NextFileKeeps ==
  ASSUME IInv, NEW s \in Ingests, NextFile(s)
  PROVE  StepKeeps(s)
  <1>1. /\ pc[s] = "next"
        /\ UNCHANGED <<repo, pushes, docs, lock, batch, todo, found, made, seen,
                       written, vlocks, crashes>>
        /\ pc' = [pc EXCEPT ![s] = "lock"]
    BY DEF NextFile, Goto
  <1>2. PICK p \in Paths : FirstOf(s, p) /\ at' = [at EXCEPT ![s] = p]
    BY DEF NextFile
  <1>3. TypeOK'
    <2>1. pc' \in [Ingests -> PC] /\ at' \in [Ingests -> Paths \cup {0}]
      BY <1>1, <1>2 DEF IInv, TypeOK, PC
    <2> QED BY <1>1, <2>1 DEF IInv, TypeOK
  <1>4. pc'[s] = "lock" /\ at'[s] = p
    BY <1>1, <1>2 DEF IInv, TypeOK
  <1>5. SessionInv(s)'
    <2>1. AtIsFirst(s)'
      BY <1>1, <1>2, <1>4 DEF AtIsFirst, InUpsert, FirstOf
    <2>2. HoldsWhatItFound(s)'
      BY <1>1, <1>4 DEF IInv, SessionInv, HoldsWhatItFound, Working, InUpsert
    <2>3. Progress(s)'
      BY <1>1, <1>4 DEF IInv, SessionInv, Progress, Working, InUpsert
    <2>4. StillTrue(s)'
      <3>1. \A q \in Paths : IsUpserted(s, q) => IsUpserted(s, q)'
        BY <1>1 DEF IsUpserted, Latest, LastDoc
      <3> QED BY <1>1, <1>4, <3>1 DEF IInv, SessionInv, StillTrue, FindsNone
    <2> QED BY <2>1, <2>2, <2>3, <2>4 DEF SessionInv
  <1>6. ASSUME NEW r \in Ingests \ {s}
        PROVE  SameSession(r) /\ SameLocks(r)
    BY <1>1, <1>2 DEF IInv, TypeOK, SameSession, SameLocks
  <1> QED BY <1>3, <1>5, <1>6 DEF StepKeeps

LEMMA LockKeeps ==
  ASSUME IInv, NEW s \in Ingests, LockDocument(s)
  PROVE  StepKeeps(s)
  <1>1. /\ pc[s] = "lock"
        /\ lock[at[s]] \in {NoIngest, s}
        /\ lock' = [lock EXCEPT ![at[s]] = s]
        /\ UNCHANGED <<repo, pushes, docs, batch, todo, at, found, made, seen,
                       written, vlocks, crashes>>
        /\ pc' = [pc EXCEPT ![s] = "find"]
    BY DEF LockDocument, Goto, sessionVars
  <1>2. at[s] \in Paths /\ FirstOf(s, at[s])
    BY <1>1 DEF IInv, SessionInv, AtIsFirst
  <1>3. TypeOK'
    <2>1. pc' \in [Ingests -> PC] /\ lock' \in [Paths -> Ingests \cup {NoIngest}]
      BY <1>1 DEF IInv, TypeOK, PC
    <2> QED BY <1>1, <2>1 DEF IInv, TypeOK
  <1>4. pc'[s] = "find" /\ lock'[at[s]] = s
    BY <1>1, <1>2 DEF IInv, TypeOK
  <1>5. \A p \in Paths : p # at[s] => lock'[p] = lock[p]
    BY <1>1 DEF IInv, TypeOK
  <1>6. SessionInv(s)'
    <2>1. AtIsFirst(s)'
      BY <1>1, <1>2, <1>4 DEF AtIsFirst, InUpsert, FirstOf
    <2>2. HoldsWhatItFound(s)'
      BY <1>1, <1>2, <1>4, <1>5 DEF IInv, SessionInv, HoldsWhatItFound, Working, InUpsert
    <2>3. Progress(s)'
      BY <1>1, <1>4 DEF IInv, SessionInv, Progress, Working, InUpsert
    <2>4. StillTrue(s)'
      <3>1. \A q \in Paths : IsUpserted(s, q) => IsUpserted(s, q)'
        BY <1>1 DEF IsUpserted, Latest, LastDoc
      <3> QED BY <1>1, <1>4, <3>1 DEF IInv, SessionInv, StillTrue, FindsNone
    <2> QED BY <2>1, <2>2, <2>3, <2>4 DEF SessionInv
  <1>7. ASSUME NEW r \in Ingests \ {s}
        PROVE  SameSession(r) /\ SameLocks(r)
    BY <1>1, <1>2, <1>4, <1>5, DocumentIngestAssumption
       DEF IInv, TypeOK, SameSession, SameLocks
  <1> QED BY <1>3, <1>6, <1>7 DEF StepKeeps

\* A session that upserts a file has not looked it up before.
LEMMA FileAtHand ==
  ASSUME IInv, NEW s \in Ingests, pc[s] \in InUpsert
  PROVE  /\ at[s] \in Paths /\ at[s] \in todo[s] /\ FirstOf(s, at[s])
         /\ lock[at[s]] = s
         /\ batch[s][at[s]] # NoContent
         /\ written[s][at[s]] = <<>>
         /\ pc[s] # "write" =>
              found[s][at[s]] = 0 /\ at[s] \notin made[s]
              /\ \A i \in Nat : <<at[s], i>> \notin vlocks[s]
  <1>1. at[s] \in Paths /\ at[s] \in todo[s] /\ FirstOf(s, at[s])
    BY DEF IInv, SessionInv, AtIsFirst, FirstOf
  <1>2. /\ lock[at[s]] = s
        /\ batch[s][at[s]] # NoContent
        /\ written[s][at[s]] = <<>>
    BY <1>1 DEF IInv, SessionInv, HoldsWhatItFound, Progress, Working
  <1>3. pc[s] # "write" => found[s][at[s]] = 0
    BY <1>1 DEF IInv, SessionInv, Progress, Working
  <1> QED BY <1>1, <1>2, <1>3 DEF IInv, SessionInv, HoldsWhatItFound

LEMMA FindKeeps ==
  ASSUME IInv, NEW s \in Ingests, Find(s)
  PROVE  StepKeeps(s)
  <1>1. /\ pc[s] = "find"
        /\ UNCHANGED <<repo, pushes, docs, lock, batch, todo, at, made, written,
                       vlocks, crashes>>
    BY DEF Find
  <1>2. PICK p \in Paths : p = at[s]
    BY <1>1, FileAtHand DEF InUpsert
  <1>3. /\ p \in Paths /\ p \in todo[s] /\ FirstOf(s, p)
        /\ lock[p] = s
        /\ batch[s][p] # NoContent
        /\ written[s][p] = <<>>
        /\ found[s][p] = 0 /\ p \notin made[s]
        /\ \A i \in Nat : <<p, i>> \notin vlocks[s]
    BY <1>1, <1>2, FileAtHand DEF InUpsert
  <1>4. CASE FindsNone(p) /\ Goto(s, "create") /\ UNCHANGED <<found, seen>>
    <2>1. TypeOK'
      <3>1. pc' \in [Ingests -> PC]
        BY <1>4 DEF IInv, TypeOK, PC, Goto
      <3> QED BY <1>1, <1>4, <3>1 DEF IInv, TypeOK
    <2>2. pc'[s] = "create"
      BY <1>4 DEF IInv, TypeOK, Goto
    <2>3. AtIsFirst(s)'
      BY <1>1, <1>2, <1>3, <2>2 DEF AtIsFirst, InUpsert, FirstOf
    <2>4. HoldsWhatItFound(s)'
      BY <1>1, <1>4, <2>2 DEF IInv, SessionInv, HoldsWhatItFound, Working, InUpsert
    <2>5. Progress(s)'
      BY <1>1, <1>4, <2>2 DEF IInv, SessionInv, Progress, Working, InUpsert
    <2>6. StillTrue(s)'
      <3>1. \A q \in Paths : IsUpserted(s, q) => IsUpserted(s, q)'
        BY <1>1 DEF IsUpserted, Latest, LastDoc
      <3> QED BY <1>1, <1>4, <1>2, <2>2, <3>1 DEF IInv, SessionInv, StillTrue, FindsNone
    <2>7. ASSUME NEW r \in Ingests \ {s}
          PROVE  SameSession(r) /\ SameLocks(r)
      BY <1>1, <1>4 DEF IInv, TypeOK, Goto, SameSession, SameLocks
    <2> QED BY <2>1, <2>3, <2>4, <2>5, <2>6, <2>7 DEF StepKeeps, SessionInv
  <1>5. ASSUME NEW i \in DOMAIN docs[p], Finds(p, i),
               found' = [found EXCEPT ![s][p] = i],
               seen' = [seen EXCEPT ![s] = Len(docs[p][i].versions)],
               Goto(s, "write")
        PROVE  StepKeeps(s)
    <2>1. docs[p] \in Seq(Document) /\ DOMAIN docs[p] = 1..Len(docs[p]) /\ Len(docs[p]) \in Nat
      BY <1>3, LenProperties DEF IInv, TypeOK
    <2>2. i \in Nat /\ i # 0 /\ docs[p] # <<>> /\ docs[p][i] \in Document
      BY <2>1, <1>5, ElementOfSeq, EmptySeq
    <2>3. i = Len(docs[p])
      BY <1>3, <1>5, <2>1, <2>2 DEF IInv, DocsInv, Finds
    <2>4. Len(docs[p][i].versions) \in Nat
      BY <2>2, LenProperties DEF Document
    <2>5. TypeOK'
      <3>1. pc' \in [Ingests -> PC]
        BY <1>5 DEF IInv, TypeOK, PC, Goto
      <3>2. found' \in [Ingests -> [Paths -> Nat]] /\ seen' \in [Ingests -> Nat]
        BY <1>3, <1>5, <2>2, <2>4 DEF IInv, TypeOK
      <3> QED BY <1>1, <3>1, <3>2 DEF IInv, TypeOK
    <2>6. /\ pc'[s] = "write" /\ seen'[s] = Len(LastDoc(p).versions) /\ found'[s][p] = i
          /\ \A q \in Paths : q # p => found'[s][q] = found[s][q]
      BY <1>3, <1>5, <2>3 DEF IInv, TypeOK, Goto, LastDoc
    <2>7. AtIsFirst(s)'
      BY <1>1, <1>2, <1>3, <2>6 DEF AtIsFirst, InUpsert, FirstOf
    <2>8. HoldsWhatItFound(s)'
      BY <1>1, <1>2, <1>3, <2>2, <2>6
         DEF IInv, SessionInv, HoldsWhatItFound, Working, InUpsert
    <2>9. Progress(s)'
      BY <1>1, <1>2, <1>3, <2>2, <2>6 DEF IInv, SessionInv, Progress, Working, InUpsert
    <2>10. StillTrue(s)'
      <3>1. \A q \in Paths : IsUpserted(s, q) => IsUpserted(s, q)'
        BY <1>1 DEF IsUpserted, Latest, LastDoc
      <3>2. seen'[s] = Len(LastDoc(p).versions)'
        BY <1>1, <2>6 DEF LastDoc
      <3> QED BY <1>1, <1>2, <1>3, <2>2, <2>3, <2>6, <3>1, <3>2
              DEF IInv, SessionInv, StillTrue, FindsNone
    <2>11. ASSUME NEW r \in Ingests \ {s}
           PROVE  SameSession(r) /\ SameLocks(r)
      BY <1>1, <1>5 DEF IInv, TypeOK, Goto, SameSession, SameLocks
    <2> QED BY <2>5, <2>7, <2>8, <2>9, <2>10, <2>11 DEF StepKeeps, SessionInv
  <1> QED BY <1>4, <1>5, <1>2 DEF Find

LEMMA CreateKeeps ==
  ASSUME IInv, NEW s \in Ingests, Create(s)
  PROVE  StepKeeps(s)
  <1>1. /\ pc[s] = "create"
        /\ UNCHANGED <<repo, pushes, docs, crashes>>
    BY DEF Create
  <1>2. PICK p \in Paths : p = at[s]
    BY <1>1, FileAtHand DEF InUpsert
  <1>3. /\ p \in todo[s] /\ FirstOf(s, p)
        /\ lock[p] = s
        /\ batch[s][p] # NoContent
        /\ written[s][p] = <<>>
        /\ found[s][p] = 0
        /\ \A i \in Nat : <<p, i>> \notin vlocks[s]
    BY <1>1, <1>2, FileAtHand DEF InUpsert
  <1>4. FindsNone(p)
    BY <1>1, <1>2 DEF IInv, SessionInv, StillTrue
  <1>5. /\ made' = [made EXCEPT ![s] = @ \cup {p}]
        /\ found' = [found EXCEPT ![s][p] = Len(docs[p]) + 1]
        /\ seen' = [seen EXCEPT ![s] = 0]
        /\ pc' = [pc EXCEPT ![s] = "write"]
        /\ UNCHANGED <<lock, batch, todo, at, written, vlocks>>
    BY <1>2, <1>4 DEF Create, Goto
  <1>6. Len(docs[p]) \in Nat
    BY LenProperties DEF IInv, TypeOK
  <1>7. TypeOK'
    <2>1. pc' \in [Ingests -> PC] /\ made' \in [Ingests -> SUBSET Paths]
      BY <1>5 DEF IInv, TypeOK, PC
    <2>2. found' \in [Ingests -> [Paths -> Nat]] /\ seen' \in [Ingests -> Nat]
      BY <1>5, <1>6 DEF IInv, TypeOK
    <2> QED BY <1>1, <1>5, <2>1, <2>2 DEF IInv, TypeOK
  <1>8. /\ pc'[s] = "write" /\ seen'[s] = 0 /\ found'[s][p] = Len(docs[p]) + 1
        /\ \A q \in Paths : q # p => found'[s][q] = found[s][q]
        /\ made'[s] = made[s] \cup {p}
    BY <1>5 DEF IInv, TypeOK
  <1>9. AtIsFirst(s)'
    BY <1>2, <1>3, <1>5, <1>8 DEF AtIsFirst, InUpsert, FirstOf
  <1>10. HoldsWhatItFound(s)'
    BY <1>1, <1>2, <1>3, <1>5, <1>6, <1>8
       DEF IInv, SessionInv, HoldsWhatItFound, Working, InUpsert
  <1>11. Progress(s)'
    BY <1>1, <1>2, <1>3, <1>5, <1>6, <1>8
       DEF IInv, SessionInv, Progress, Working, InUpsert
  <1>12. StillTrue(s)'
    <2>1. \A q \in Paths : q # p /\ IsUpserted(s, q) => IsUpserted(s, q)'
      BY <1>1, <1>5, <1>8 DEF IsUpserted, Latest, LastDoc
    <2> QED BY <1>1, <1>2, <1>3, <1>4, <1>5, <1>6, <1>8, <2>1
            DEF IInv, SessionInv, StillTrue, FindsNone
  <1>13. ASSUME NEW r \in Ingests \ {s}
         PROVE  SameSession(r) /\ SameLocks(r)
    BY <1>5 DEF IInv, TypeOK, SameSession, SameLocks
  <1> QED BY <1>7, <1>9, <1>10, <1>11, <1>12, <1>13 DEF StepKeeps, SessionInv

\* What a session about to write knows of the document's latest version.
LEMMA LatestKnown ==
  ASSUME IInv, NEW s \in Ingests, NEW p \in Paths, pc[s] = "write", at[s] = p
  PROVE  /\ found[s][p] \in Nat /\ found[s][p] # 0
         /\ p \in made[s] => seen[s] = 0
         /\ p \notin made[s] => /\ seen[s] # 0
                               /\ LatestSeen(s) = Latest(LastDoc(p))
                               /\ LatestSeen(s) \in Version
  <1>1. found[s][p] \in Nat /\ found[s][p] # 0
    BY DEF IInv, TypeOK, SessionInv, Progress
  <1>2. ASSUME p \notin made[s]
        PROVE  /\ seen[s] # 0
               /\ LatestSeen(s) = Latest(LastDoc(p))
               /\ LatestSeen(s) \in Version
    <2>1. docs[p] # <<>> /\ found[s][p] = Len(docs[p])
      BY <1>1, <1>2 DEF IInv, SessionInv, StillTrue
    <2>2. seen[s] = Len(LastDoc(p).versions)
      BY <1>2 DEF IInv, SessionInv, StillTrue
    <2>3. Len(docs[p]) \in DOMAIN docs[p]
      BY <2>1, LastInDomain DEF IInv
    <2>4. LastDoc(p) \in Document /\ LastDoc(p).versions # <<>>
      <3>1. docs[p] \in Seq(Document)
        BY DEF IInv, TypeOK
      <3>2. LastDoc(p) \in Document
        BY <2>3, <3>1, ElementOfSeq, LenProperties DEF LastDoc
      <3> QED BY <2>3, <3>2 DEF IInv, DocsInv, LastDoc
    <2>5. LastDoc(p).versions \in Seq(Version)
      BY <2>4 DEF Document
    <2>6. Len(LastDoc(p).versions) \in Nat \ {0}
      BY <2>4, <2>5, EmptySeq, LenProperties
    <2>7. Latest(LastDoc(p)) \in Version
      BY <2>5, <2>6, ElementOfSeq DEF Latest
    <2>8. LatestSeen(s) = Latest(LastDoc(p))
      BY <2>1, <2>2 DEF LatestSeen, Latest, LastDoc
    <2> QED BY <2>2, <2>6, <2>7, <2>8
  <1>3. p \in made[s] => seen[s] = 0
    BY DEF IInv, SessionInv, StillTrue
  <1> QED BY <1>1, <1>2, <1>3

LEMMA UpsertKeeps ==
  ASSUME IInv, NEW s \in Ingests, KeepVersion(s) \/ WriteVersion(s)
  PROVE  StepKeeps(s)
  <1>1. /\ pc[s] = "write"
        /\ UNCHANGED <<repo, pushes, docs, lock, batch, found, made, seen, crashes>>
    BY DEF KeepVersion, WriteVersion
  <1>2. PICK p \in Paths : p = at[s]
    BY <1>1, FileAtHand DEF InUpsert
  <1>3. /\ p \in todo[s] /\ FirstOf(s, p)
        /\ lock[p] = s
        /\ batch[s][p] \in Contents
        /\ written[s][p] = <<>>
    BY <1>1, <1>2, FileAtHand DEF InUpsert, IInv, TypeOK
  <1>4. /\ found[s][p] \in Nat /\ found[s][p] # 0
        /\ p \in made[s] => seen[s] = 0
        /\ p \notin made[s] => /\ seen[s] # 0
                              /\ LatestSeen(s) = Latest(LastDoc(p))
                              /\ LatestSeen(s) \in Version
    BY <1>1, <1>2, LatestKnown
  <1>5. /\ vlocks' = [vlocks EXCEPT ![s] = @ \cup {<<p, found[s][p]>>}]
        /\ todo' = [todo EXCEPT ![s] = @ \ {p}]
        /\ at' = [at EXCEPT ![s] = 0]
        /\ pc' = [pc EXCEPT ![s] = "next"]
    BY <1>2 DEF KeepVersion, WriteVersion, LockVersions, FileDone, Goto
  <1>6. \/ /\ p \notin made[s]
           /\ Latest(LastDoc(p)).content = batch[s][p]
           /\ UNCHANGED written
        \/ /\ p \in made[s]
           /\ written' = [written EXCEPT ![s][p] =
                            <<[number |-> 1, content |-> batch[s][p]]>>]
        \/ /\ p \notin made[s]
           /\ Latest(LastDoc(p)).content # batch[s][p]
           /\ written' = [written EXCEPT ![s][p] =
                            <<[number |-> Latest(LastDoc(p)).number + 1,
                               content |-> batch[s][p]]>>]
    <2>1. CASE KeepVersion(s)
      BY <1>2, <1>4, <2>1 DEF KeepVersion
    <2>2. CASE WriteVersion(s)
      <3>1. CASE p \in made[s]
        BY <1>2, <1>4, <2>2, <3>1 DEF WriteVersion
      <3>2. CASE p \notin made[s]
        BY <1>2, <1>4, <2>2, <3>2 DEF WriteVersion
      <3> QED BY <3>1, <3>2
    <2> QED BY <2>1, <2>2
  <1>7. written' \in [Ingests -> [Paths -> Seq(Version)]]
    <2>1. ASSUME NEW v \in Version
          PROVE  [written EXCEPT ![s][p] = <<v>>] \in [Ingests -> [Paths -> Seq(Version)]]
      BY DEF IInv, TypeOK
    <2>2. [number |-> 1, content |-> batch[s][p]] \in Version
      BY <1>3 DEF Version
    <2>3. p \notin made[s] =>
            [number |-> Latest(LastDoc(p)).number + 1, content |-> batch[s][p]] \in Version
      BY <1>3, <1>4 DEF Version
    <2>4. written \in [Ingests -> [Paths -> Seq(Version)]]
      BY DEF IInv, TypeOK
    <2> QED BY <1>6, <2>1, <2>2, <2>3, <2>4
  <1>8. TypeOK'
    <2>1. /\ pc' \in [Ingests -> PC]
          /\ todo' \in [Ingests -> SUBSET Paths]
          /\ at' \in [Ingests -> Paths \cup {0}]
      BY <1>5 DEF IInv, TypeOK, PC
    <2>2. vlocks' \in [Ingests -> SUBSET (Paths \X Nat)]
      BY <1>4, <1>5 DEF IInv, TypeOK
    <2> QED BY <1>1, <1>7, <2>1, <2>2 DEF IInv, TypeOK
  <1>9. /\ pc'[s] = "next" /\ at'[s] = 0 /\ todo'[s] = todo[s] \ {p}
        /\ vlocks'[s] = vlocks[s] \cup {<<p, found[s][p]>>}
    BY <1>5 DEF IInv, TypeOK
  <1>10. \A q \in Paths : q # p => written'[s][q] = written[s][q]
    BY <1>6 DEF IInv, TypeOK
  <1>11. AtIsFirst(s)'
    BY <1>9 DEF AtIsFirst, InUpsert
  <1>12. HoldsWhatItFound(s)'
    <2>1. \A q \in todo[s] : p <= q
      BY <1>3 DEF FirstOf
    <2>2. \A q \in todo'[s] : p < q
      <3>1. \A q \in todo[s] : q \in Nat /\ p \in Nat
        BY DEF IInv, TypeOK, Paths
      <3> QED BY <1>9, <2>1, <3>1
    <2> QED BY <1>1, <1>2, <1>3, <1>4, <1>9, <1>10, <2>2
            DEF IInv, SessionInv, HoldsWhatItFound, Working, InUpsert
  <1>13. Progress(s)'
    BY <1>1, <1>2, <1>4, <1>9, <1>10
       DEF IInv, SessionInv, Progress, Working, InUpsert
  <1>14. IsUpserted(s, p)'
    <2>1. UNCHANGED <<Latest(LastDoc(p)), batch, made>>
      BY <1>1 DEF Latest, LastDoc
    <2>2. written[s][p] = <<>> /\ written \in [Ingests -> [Paths -> Seq(Version)]]
      BY <1>3 DEF IInv, TypeOK
    <2> QED BY <1>6, <2>1, <2>2 DEF IsUpserted
  <1>15. StillTrue(s)'
    <2>1. \A q \in Paths : q # p /\ IsUpserted(s, q) => IsUpserted(s, q)'
      BY <1>1, <1>10 DEF IsUpserted, Latest, LastDoc
    <2> QED BY <1>1, <1>2, <1>9, <1>14, <2>1
            DEF IInv, SessionInv, StillTrue, FindsNone
  <1>16. ASSUME NEW r \in Ingests \ {s}
         PROVE  SameSession(r) /\ SameLocks(r)
    <2>1. written'[r] = written[r]
      BY <1>6 DEF IInv, TypeOK
    <2> QED BY <1>1, <1>5, <2>1 DEF IInv, TypeOK, SameSession, SameLocks
  <1> QED BY <1>8, <1>11, <1>12, <1>13, <1>15, <1>16 DEF StepKeeps, SessionInv

(***************************************************************************)
(* What a commit does to the rows of a path: the update that the catalog   *)
(* prescribes for the content the session has read.                        *)
(***************************************************************************)
NewDoc(content) ==
  [deleted |-> FALSE, versions |-> <<[number |-> 1, content |-> content]>>]

LEMMA AppendedRows ==
  ASSUME NEW rows \in Seq(Document), NEW doc \in Document,
         \A i \in DOMAIN rows : rows[i].deleted /\ rows[i].versions # <<>>,
         doc.versions # <<>>
  PROVE  /\ Append(rows, doc) \in Seq(Document)
         /\ GoodRows(Append(rows, doc))
         /\ \A i \in DOMAIN rows : i \in DOMAIN Append(rows, doc)
                                 /\ Append(rows, doc)[i] = rows[i]
  <1> DEFINE new == Append(rows, doc)
  <1>1. /\ new \in Seq(Document)
        /\ Len(new) = Len(rows) + 1
        /\ \A i \in 1..Len(rows) : new[i] = rows[i]
        /\ new[Len(rows) + 1] = doc
    BY AppendProperties
  <1>2. Len(rows) \in Nat /\ DOMAIN rows = 1..Len(rows) /\ DOMAIN new = 1..(Len(rows) + 1)
    BY <1>1, LenProperties
  <1> HIDE DEF new
  <1>3. GoodRows(new)
    <2> SUFFICES ASSUME NEW i \in DOMAIN new
                 PROVE  new[i].versions # <<>> /\ (i < Len(new) => new[i].deleted)
      BY DEF GoodRows
    <2>1. CASE i \in DOMAIN rows
      BY <1>1, <1>2, <2>1
    <2>2. CASE i = Len(rows) + 1
      BY <1>1, <1>2, <2>2
    <2> QED BY <1>2, <2>1, <2>2
  <1> QED BY <1>1, <1>2, <1>3 DEF new

LEMMA NewVersions ==
  ASSUME NEW doc \in Document, NEW vs
  PROVE  [doc EXCEPT !.versions = vs] = [deleted |-> doc.deleted, versions |-> vs]
  BY DEF Document

LEMMA ReplacedRow ==
  ASSUME NEW rows \in Seq(Document), NEW n \in 1..Len(rows), NEW doc \in Document
  PROVE  LET new == [rows EXCEPT ![n] = doc]
         IN /\ new \in Seq(Document) /\ Len(new) = Len(rows)
            /\ DOMAIN new = 1..Len(rows)
            /\ \A i \in 1..Len(rows) : i # n => new[i] = rows[i]
            /\ new[n] = doc
  <1> DEFINE new == [rows EXCEPT ![n] = doc]
  <1>1. /\ new \in Seq(Document) /\ Len(new) = Len(rows)
        /\ \A i \in 1..Len(rows) : new[i] = IF i = n THEN doc ELSE rows[i]
    BY ExceptSeq
  <1> HIDE DEF new
  <1>2. DOMAIN new = 1..Len(new)
    BY <1>1, LenProperties
  <1>3. /\ new \in Seq(Document) /\ Len(new) = Len(rows)
        /\ DOMAIN new = 1..Len(rows)
        /\ \A i \in 1..Len(rows) : i # n => new[i] = rows[i]
        /\ new[n] = doc
    BY <1>1, <1>2
  <1> QED BY <1>3 DEF new

WithVersion(rows, v) == [rows EXCEPT ![Len(rows)].versions = Append(@, v)]

LEMMA RevisedRow ==
  ASSUME NEW rows \in Seq(Document), rows # <<>>, GoodRows(rows), NEW v \in Version,
         NEW new, new = WithVersion(rows, v)
  PROVE  /\ new \in Seq(Document) /\ GoodRows(new)
         /\ Len(new) = Len(rows) /\ DOMAIN new = DOMAIN rows
         /\ \A i \in DOMAIN rows : i # Len(rows) => new[i] = rows[i]
         /\ new[Len(rows)] = [deleted |-> rows[Len(rows)].deleted,
                             versions |-> Append(rows[Len(rows)].versions, v)]
  <1> DEFINE n == Len(rows)
             vs == Append(rows[n].versions, v)
  <1>1. n \in Nat \ {0} /\ DOMAIN rows = 1..n
    BY EmptySeq, LenProperties
  <1>2. \A i \in 1..n : rows[i] \in Document
    BY ElementOfSeq
  <1>3. rows[n].versions \in Seq(Version)
    BY <1>1, <1>2 DEF Document
  <1>4. vs \in Seq(Version) /\ vs # <<>>
    <2>1. vs \in Seq(Version) /\ Len(vs) = Len(rows[n].versions) + 1
      BY <1>3, AppendProperties
    <2>2. Len(rows[n].versions) \in Nat
      BY <1>3, LenProperties
    <2> QED BY <2>1, <2>2, EmptySeq
  <1> HIDE DEF vs
  <1>5. [rows[n] EXCEPT !.versions = vs]
          = [deleted |-> rows[n].deleted, versions |-> vs]
    BY <1>1, <1>2, NewVersions
  <1>6. [deleted |-> rows[n].deleted, versions |-> vs] \in Document
    BY <1>1, <1>2, <1>4 DEF Document
  <1>7. new = [rows EXCEPT ![n] = [deleted |-> rows[n].deleted, versions |-> vs]]
    BY <1>1, <1>5 DEF vs, WithVersion
  <1>8. /\ new \in Seq(Document) /\ Len(new) = n /\ DOMAIN new = 1..n
        /\ \A i \in 1..n : i # n => new[i] = rows[i]
        /\ new[n] = [deleted |-> rows[n].deleted, versions |-> vs]
    <2>1. PICK doc \in Document : doc = [deleted |-> rows[n].deleted, versions |-> vs]
      BY <1>6
    <2>2. new = [rows EXCEPT ![n] = doc]
      BY <1>7, <2>1
    <2>3. n \in 1..Len(rows)
      BY <1>1
    <2> HIDE DEF n
    <2>4. /\ new \in Seq(Document) /\ Len(new) = Len(rows)
          /\ DOMAIN new = 1..Len(rows)
          /\ \A i \in 1..Len(rows) : i # n => new[i] = rows[i]
          /\ new[n] = doc
      <3>1. LET rows2 == [rows EXCEPT ![n] = doc]
            IN /\ rows2 \in Seq(Document) /\ Len(rows2) = Len(rows)
               /\ DOMAIN rows2 = 1..Len(rows)
               /\ \A i \in 1..Len(rows) : i # n => rows2[i] = rows[i]
               /\ rows2[n] = doc
        BY ONLY <2>3, rows \in Seq(Document), doc \in Document, ReplacedRow
      <3> QED BY ONLY <2>2, <3>1
    <2> QED BY <2>1, <2>4 DEF n
  <1>9. GoodRows(new)
    <2>1. new[n].versions # <<>> /\ new[n].deleted = rows[n].deleted
      <3>1. new[n] = [deleted |-> rows[n].deleted, versions |-> vs]
        BY <1>8
      <3>2. new[n].versions = vs /\ new[n].deleted = rows[n].deleted
        BY ONLY <3>1
      <3> QED BY <1>4, <3>2
    <2>2. \A i \in 1..n : /\ new[i].versions # <<>>
                          /\ new[i].deleted = rows[i].deleted
      BY <1>1, <1>8, <2>1 DEF GoodRows
    <2> QED BY <1>1, <1>8, <2>2 DEF GoodRows
  <1>10. new[n] = [deleted |-> rows[n].deleted, versions |-> Append(rows[n].versions, v)]
    BY <1>8 DEF vs
  <1>11. \A i \in DOMAIN rows : i # n => new[i] = rows[i]
    BY <1>1, <1>8
  <1> QED BY <1>1, <1>8, <1>9, <1>10, <1>11

LEMMA RevisedRows ==
  ASSUME NEW rows \in Seq(Document), rows # <<>>, GoodRows(rows), NEW v \in Version,
         NEW new, new = WithVersion(rows, v)
  PROVE  /\ new \in Seq(Document)
         /\ GoodRows(new)
         /\ \A i \in DOMAIN rows : i \in DOMAIN new /\ new[i].deleted = rows[i].deleted
  <1>1. /\ new \in Seq(Document) /\ GoodRows(new) /\ DOMAIN new = DOMAIN rows
        /\ \A i \in DOMAIN rows : i # Len(rows) => new[i] = rows[i]
        /\ new[Len(rows)] = [deleted |-> rows[Len(rows)].deleted,
                            versions |-> Append(rows[Len(rows)].versions, v)]
    BY RevisedRow
  <1>2. new[Len(rows)].deleted = rows[Len(rows)].deleted
    BY <1>1
  <1> QED BY <1>1, <1>2

LEMMA CommittedRows ==
  ASSUME IInv, NEW s \in Ingests, pc[s] = "next", todo[s] = {}, NEW p \in Paths
  PROVE  /\ Committed(s, p) \in Seq(Document)
         /\ GoodRows(Committed(s, p))
         /\ \A i \in DOMAIN docs[p] :
              /\ i \in DOMAIN Committed(s, p)
              /\ Committed(s, p)[i].deleted = docs[p][i].deleted
         /\ lock[p] # s => Committed(s, p) = docs[p]
         /\ batch[s][p] = NoContent => Committed(s, p) = docs[p]
         /\ batch[s][p] # NoContent /\ p \in made[s] =>
              /\ FindsNone(p)
              /\ Committed(s, p) = Append(docs[p], NewDoc(batch[s][p]))
         /\ batch[s][p] # NoContent /\ p \notin made[s] =>
              /\ docs[p] # <<>>
              /\ IF Latest(LastDoc(p)).content = batch[s][p]
                 THEN Committed(s, p) = docs[p]
                 ELSE Committed(s, p) =
                        [docs[p] EXCEPT ![Len(docs[p])].versions =
                           Append(@, [number |-> Latest(LastDoc(p)).number + 1,
                                      content |-> batch[s][p]])]
  <1>1. docs[p] \in Seq(Document) /\ GoodRows(docs[p])
    BY DEF IInv, TypeOK, DocsInv, GoodRows
  <1>2. CASE found[s][p] = 0
    <2>1. p \notin made[s] /\ written[s][p] = <<>> /\ batch[s][p] = NoContent
      BY <1>2 DEF IInv, SessionInv, HoldsWhatItFound, Progress, Working
    <2>2. Committed(s, p) = docs[p]
      BY <2>1 DEF Committed
    <2> QED BY <1>1, <2>1, <2>2
  <1>3. CASE found[s][p] # 0
    <2>1. /\ lock[p] = s
          /\ batch[s][p] \in Contents
          /\ p \in made[s] => FindsNone(p)
          /\ p \notin made[s] => docs[p] # <<>> /\ found[s][p] = Len(docs[p])
          /\ IsUpserted(s, p)
      BY <1>3 DEF IInv, TypeOK, SessionInv, HoldsWhatItFound, StillTrue
    <2>2. CASE p \in made[s]
      <3>1. Committed(s, p) = Append(docs[p], NewDoc(batch[s][p]))
        BY <2>1, <2>2 DEF Committed, NewDoc, IsUpserted
      <3>2. NewDoc(batch[s][p]) \in Document /\ NewDoc(batch[s][p]).versions # <<>>
        BY <2>1 DEF NewDoc, Document, Version
      <3>3. \A i \in DOMAIN docs[p] : docs[p][i].deleted /\ docs[p][i].versions # <<>>
        BY <1>1, <2>1, <2>2 DEF FindsNone, GoodRows
      <3> HIDE DEF NewDoc, Document, GoodRows
      <3>4. /\ Committed(s, p) \in Seq(Document)
            /\ GoodRows(Committed(s, p))
            /\ \A i \in DOMAIN docs[p] : i \in DOMAIN Committed(s, p)
                                       /\ Committed(s, p)[i] = docs[p][i]
        BY <1>1, <3>1, <3>2, <3>3, AppendedRows
      <3> QED BY <2>1, <2>2, <3>1, <3>4, DocumentIngestAssumption
    <2>3. CASE p \notin made[s] /\ written[s][p] = <<>>
      <3>1. Committed(s, p) = docs[p] /\ Latest(LastDoc(p)).content = batch[s][p]
        BY <2>1, <2>3 DEF Committed, IsUpserted
      <3> QED BY <1>1, <2>1, <2>3, <3>1, DocumentIngestAssumption
    <2>4. CASE p \notin made[s] /\ written[s][p] # <<>>
      <3> DEFINE v == [number |-> Latest(LastDoc(p)).number + 1,
                       content |-> batch[s][p]]
      <3>1. /\ written[s][p] = <<v>>
            /\ Latest(LastDoc(p)).content # batch[s][p]
            /\ docs[p] # <<>>
            /\ found[s][p] = Len(docs[p])
        BY <2>1, <2>4 DEF IsUpserted
      <3>2. v \in Version
        <4>1. written[s][p] \in Seq(Version)
          BY DEF IInv, TypeOK
        <4>2. Len(written[s][p]) = 1 /\ written[s][p][1] = v
          BY <3>1
        <4> HIDE DEF v
        <4> QED BY <4>1, <4>2, ElementOfSeq
      <3> HIDE DEF v
      <3>3. written[s][p][1] = v
        BY <3>1
      <3>4. Committed(s, p) = WithVersion(docs[p], v)
        BY <2>4, <3>1, <3>3 DEF Committed, WithVersion
      <3>5. /\ Committed(s, p) \in Seq(Document)
            /\ GoodRows(Committed(s, p))
            /\ \A i \in DOMAIN docs[p] :
                 /\ i \in DOMAIN Committed(s, p)
                 /\ Committed(s, p)[i].deleted = docs[p][i].deleted
        BY <1>1, <3>1, <3>2, <3>4, RevisedRows
      <3> QED
        BY <2>1, <2>4, <3>1, <3>4, <3>5, DocumentIngestAssumption DEF v, WithVersion
    <2> QED BY <2>2, <2>3, <2>4
  <1> QED BY <1>2, <1>3

-----------------------------------------------------------------------------
(* The invariant is inductive.                                             *)

LEMMA InitIInv == Init => IInv
  <1> SUFFICES ASSUME Init PROVE IInv
    OBVIOUS
  <1>1. TypeOK
    <2>1. /\ docs \in [Paths -> Seq(Document)]
          /\ written \in [Ingests -> [Paths -> Seq(Version)]]
      BY EmptySeq DEF Init
    <2>2. /\ pc \in [Ingests -> PC]
          /\ batch \in [Ingests -> [Paths -> Contents \cup {NoContent}]]
          /\ todo \in [Ingests -> SUBSET Paths]
          /\ found \in [Ingests -> [Paths -> Nat]]
      BY DocumentIngestAssumption DEF Init, PC, NoFiles
    <2>3. /\ repo \in [Paths -> Contents \cup {NoContent}]
          /\ lock \in [Paths -> Ingests \cup {NoIngest}]
          /\ at \in [Ingests -> Paths \cup {0}]
          /\ made \in [Ingests -> SUBSET Paths]
          /\ seen \in [Ingests -> Nat]
          /\ vlocks \in [Ingests -> SUBSET (Paths \X Nat)]
          /\ pushes \in 0..MaxPushes /\ crashes \in 0..MaxCrashes
      BY DocumentIngestAssumption DEF Init
    <2> QED BY <2>1, <2>2, <2>3 DEF TypeOK
  <1>2. DocsInv
    <2>1. \A p \in Paths : DOMAIN docs[p] = {}
      <3>1. \A p \in Paths : docs[p] = <<>>
        BY DEF Init
      <3>2. DOMAIN <<>> = {}
        OBVIOUS
      <3> QED BY <3>1, <3>2
    <2> QED BY <2>1 DEF DocsInv
  <1>3. ASSUME NEW s \in Ingests
        PROVE  SessionInv(s)
    <2>1. /\ pc[s] = "fetch" /\ at[s] = 0 /\ made[s] = {} /\ vlocks[s] = {}
          /\ \A p \in Paths : found[s][p] = 0 /\ written[s][p] = <<>> /\ lock[p] # s
      BY DocumentIngestAssumption DEF Init
    <2> QED BY <2>1 DEF SessionInv, AtIsFirst, HoldsWhatItFound, Progress, StillTrue,
                        Working, InUpsert
  <1> QED BY <1>1, <1>2, <1>3 DEF IInv

LEMMA SameDocs ==
  ASSUME UNCHANGED docs
  PROVE  (DocsInv => DocsInv') /\ \A p \in Paths : OnlyDeletions(p)
  BY DEF DocsInv, OnlyDeletions

LEMMA SessionStep ==
  ASSUME IInv, NEW s \in Ingests, StepKeeps(s), DocsInv',
         \A p \in Paths : lock[p] # s => OnlyDeletions(p)
  PROVE  IInv'
  <1>1. ASSUME NEW r \in Ingests \ {s}
        PROVE  SessionInv(r)'
    <2>1. \A p \in Paths : lock[p] = r => OnlyDeletions(p)
      OBVIOUS
    <2>2. TypeOK /\ SessionInv(r) /\ SameSession(r) /\ SameLocks(r)
      BY DEF IInv, StepKeeps
    <2> QED BY <2>1, <2>2, OthersKept
  <1> QED BY <1>1 DEF IInv, StepKeeps

LEMMA CommitKeeps ==
  ASSUME IInv, NEW s \in Ingests, Commit(s)
  PROVE  /\ StepKeeps(s)
         /\ DocsInv'
         /\ \A p \in Paths : lock[p] # s => OnlyDeletions(p)
         /\ \A p \in Paths : \A i \in DOMAIN docs[p] :
              docs'[p][i].deleted = docs[p][i].deleted
  <1>1. /\ pc[s] = "next" /\ todo[s] = {}
        /\ docs' = [p \in Paths |-> Committed(s, p)]
        /\ EndTransaction(s) /\ Goto(s, "committed")
        /\ UNCHANGED <<repo, pushes, crashes>>
    BY DEF Commit
  <1>2. ASSUME NEW p \in Paths
        PROVE  /\ docs'[p] = Committed(s, p)
               /\ docs'[p] \in Seq(Document)
               /\ GoodRows(docs'[p])
               /\ \A i \in DOMAIN docs[p] : docs'[p][i].deleted = docs[p][i].deleted
               /\ lock[p] # s => docs'[p] = docs[p]
    <2>1. docs'[p] = Committed(s, p)
      BY <1>1
    <2> HIDE DEF Committed
    <2>2. pc[s] = "next" /\ todo[s] = {}
      BY <1>1
    <2>3. Committed(s, p) \in Seq(Document) /\ GoodRows(Committed(s, p))
      BY <2>2, CommittedRows
    <2>4. \A i \in DOMAIN docs[p] :
            /\ i \in DOMAIN Committed(s, p)
            /\ Committed(s, p)[i].deleted = docs[p][i].deleted
      BY <2>2, CommittedRows
    <2>5. lock[p] # s => Committed(s, p) = docs[p]
      BY <2>2, CommittedRows
    <2> QED BY ONLY <2>1, <2>3, <2>4, <2>5
  <1>3. docs' \in [Paths -> Seq(Document)]
    BY <1>1, <1>2
  <1>4. TypeOK /\ crashes' \in 0..MaxCrashes
    BY <1>1 DEF IInv, TypeOK
  <1>5. StepKeeps(s)
    BY <1>1, <1>3, <1>4, EndKeeps
  <1>6. DocsInv'
    BY <1>2 DEF DocsInv, GoodRows
  <1>7. \A p \in Paths : lock[p] # s => OnlyDeletions(p)
    BY <1>2 DEF OnlyDeletions
  <1> QED BY <1>2, <1>5, <1>6, <1>7

LEMMA DeletedDoc ==
  ASSUME NEW doc \in Document, NEW flag
  PROVE  [doc EXCEPT !.deleted = flag] = [deleted |-> flag, versions |-> doc.versions]
  BY DEF Document

LEMMA DeletedRows ==
  ASSUME IInv, NEW p \in Paths, NEW i \in DOMAIN docs[p], Delete(p, i)
  PROVE  TypeOK' /\ DocsInv' /\ \A q \in Paths : OnlyDeletions(q)
  <1> DEFINE doc == [deleted |-> TRUE, versions |-> docs[p][i].versions]
             new == [docs[p] EXCEPT ![i] = doc]
  <1>1. docs[p] \in Seq(Document) /\ i \in 1..Len(docs[p]) /\ DOMAIN docs[p] = 1..Len(docs[p])
    BY LenProperties DEF IInv, TypeOK
  <1>2. docs[p][i] \in Document
    BY <1>1, ElementOfSeq
  <1>3. doc \in Document /\ [docs[p][i] EXCEPT !.deleted = TRUE] = doc
    BY <1>2, DeletedDoc DEF Document
  <1> HIDE DEF doc
  <1>4. /\ new \in Seq(Document) /\ Len(new) = Len(docs[p])
        /\ DOMAIN new = 1..Len(docs[p])
        /\ \A j \in 1..Len(docs[p]) : j # i => new[j] = docs[p][j]
        /\ new[i] = doc
    BY <1>1, <1>3, ReplacedRow
  <1>5. docs' = [docs EXCEPT ![p] = new]
    BY <1>3 DEF Delete
  <1> HIDE DEF new
  <1>6. /\ docs' \in [Paths -> Seq(Document)]
        /\ docs'[p] = new
        /\ \A q \in Paths : q # p => docs'[q] = docs[q]
    BY <1>4, <1>5 DEF IInv, TypeOK
  <1>7. TypeOK'
    BY <1>6 DEF IInv, TypeOK, Delete, sessionVars
  <1>8. doc.deleted /\ doc.versions = docs[p][i].versions
    BY DEF doc
  <1>9. OnlyDeletions(p)
    <2>1. new = <<>> <=> docs[p] = <<>>
      BY <1>1, <1>4, EmptySeq
    <2> QED BY <1>1, <1>4, <1>6, <1>8, <2>1 DEF OnlyDeletions
  <1>10. \A q \in Paths : OnlyDeletions(q)
    BY <1>6, <1>9 DEF OnlyDeletions
  <1>11. DocsInv'
    BY <1>10 DEF IInv, DocsInv, OnlyDeletions
  <1> QED BY <1>7, <1>10, <1>11

LEMMA NextIInv == IInv /\ [Next]_vars => IInv'
  <1> SUFFICES ASSUME IInv, [Next]_vars PROVE IInv'
    OBVIOUS
  <1>1. ASSUME NEW s \in Ingests, Step(s)
        PROVE  IInv'
    <2>1. CASE Commit(s)
      BY <2>1, CommitKeeps, SessionStep
    <2>2. CASE ~Commit(s) /\ ~Return(s)
      <3>1. StepKeeps(s)
        BY <1>1, <2>2, FetchKeeps, NextFileKeeps, LockKeeps, FindKeeps, CreateKeeps,
           UpsertKeeps DEF Step
      <3>2. UNCHANGED docs
        BY <1>1, <2>2 DEF Step, FetchFile, StartUpserts, NextFile, LockDocument, Find,
                          Create, KeepVersion, WriteVersion
      <3> QED BY <3>1, <3>2, SameDocs, SessionStep DEF IInv
    <2>3. CASE Return(s)
      <3>1. /\ pc[s] = "committed" /\ pc' = [pc EXCEPT ![s] = "done"]
            /\ UNCHANGED <<repo, pushes, docs, lock, batch, todo, at, found, made,
                           seen, written, vlocks, crashes>>
        BY <2>3 DEF Return, Goto, sessionVars
      <3>2. TypeOK'
        <4>1. pc' \in [Ingests -> PC]
          BY <3>1 DEF IInv, TypeOK, PC
        <4> QED BY <3>1, <4>1 DEF IInv, TypeOK
      <3>3. SessionInv(s)'
        <4>1. pc'[s] = "done"
          BY <3>1 DEF IInv, TypeOK
        <4>2. /\ at[s] = 0
              /\ \A p \in Paths : found[s][p] = 0 /\ lock[p] # s
          BY <3>1 DEF IInv, SessionInv, AtIsFirst, HoldsWhatItFound, Working, InUpsert
        <4>3. HoldsWhatItFound(s)'
          BY <3>1, <4>1, <4>2
             DEF IInv, SessionInv, HoldsWhatItFound, Working, InUpsert
        <4> QED BY <3>1, <4>1, <4>2, <4>3
                DEF SessionInv, AtIsFirst, Progress, StillTrue, Working, InUpsert
      <3>4. \A r \in Ingests \ {s} : SameSession(r) /\ SameLocks(r)
        BY <3>1 DEF IInv, TypeOK, SameSession, SameLocks
      <3> QED BY <3>1, <3>2, <3>3, <3>4, SameDocs, SessionStep DEF IInv, StepKeeps
    <2> QED BY <2>1, <2>2, <2>3
  <1>2. ASSUME NEW s \in Ingests, Raise(s) \/ Crash(s)
        PROVE  IInv'
    <2>1. PICK label \in {"fetch", "committed", "failed"} : Goto(s, label)
      BY <1>2 DEF Raise, Crash
    <2>2. /\ EndTransaction(s)
          /\ UNCHANGED <<repo, pushes, docs>>
          /\ crashes' \in 0..MaxCrashes
          /\ docs' \in [Paths -> Seq(Document)]
      BY <1>2, DocumentIngestAssumption DEF Raise, Crash, IInv, TypeOK
    <2>3. StepKeeps(s)
      BY <2>1, <2>2, EndKeeps DEF IInv
    <2> QED BY <2>2, <2>3, SameDocs, SessionStep DEF IInv
  <1>3. ASSUME UNCHANGED <<docs, lock, pc, batch, todo, at, found, made, seen,
                           written, vlocks>>, TypeOK'
        PROVE  IInv'
    <2>1. ASSUME NEW r \in Ingests
          PROVE  SessionInv(r)'
      <3>1. SameSession(r) /\ SameLocks(r)
        BY <1>3 DEF SameSession, SameLocks
      <3> QED BY <1>3, <3>1, SameDocs, OthersKept DEF IInv
    <2> QED BY <1>3, <2>1, SameDocs DEF IInv
  <1>4. CASE Push
    <2>1. /\ UNCHANGED <<docs, lock, pc, batch, todo, at, found, made, seen,
                         written, vlocks, crashes>>
          /\ repo' \in [Paths -> Contents \cup {NoContent}]
          /\ pushes' \in 0..MaxPushes
      BY <1>4, DocumentIngestAssumption DEF IInv, TypeOK, Push, sessionVars
    <2>2. TypeOK'
      BY <2>1 DEF IInv, TypeOK
    <2> QED BY <1>3, <2>1, <2>2
  <1>5. ASSUME NEW p \in Paths, NEW i \in DOMAIN docs[p], Delete(p, i)
        PROVE  IInv'
    <2>1. TypeOK' /\ DocsInv' /\ \A q \in Paths : OnlyDeletions(q)
      BY <1>5, DeletedRows
    <2>2. UNCHANGED <<lock, pc, batch, todo, at, found, made, seen, written, vlocks>>
      BY <1>5 DEF Delete, sessionVars
    <2>3. ASSUME NEW r \in Ingests
          PROVE  SessionInv(r)'
      <3>1. SameSession(r) /\ SameLocks(r)
        BY <2>2 DEF SameSession, SameLocks
      <3> QED BY <2>1, <3>1, OthersKept DEF IInv
    <2> QED BY <2>1, <2>3 DEF IInv
  <1>6. CASE UNCHANGED vars
    <2>1. UNCHANGED <<repo, pushes, docs, lock, pc, batch, todo, at, found, made, seen,
                      written, vlocks, crashes>>
      BY <1>6 DEF vars, sessionVars
    <2>2. TypeOK'
      BY <2>1 DEF IInv, TypeOK
    <2> QED BY <1>3, <2>1, <2>2
  <1> QED BY <1>1, <1>2, <1>4, <1>5, <1>6 DEF Next

-----------------------------------------------------------------------------
(* The theorems.                                                           *)

\* What a session has locked and read is so in every reachable state.
THEOREM Invariance == Spec => []IInv
  BY InitIInv, NextIInv, PTL DEF Spec

\* Every variable keeps its type.
THEOREM TypeCorrect == Spec => []TypeOK
  <1>1. IInv => TypeOK
    BY DEF IInv
  <1> QED BY <1>1, Invariance, PTL

\* upsert_document never runs into the unique index on live documents.
THEOREM IndexNeverRefuses == Spec => []NeverConflicts
  <1>1. IInv => NeverConflicts
    BY DEF IInv, SessionInv, StillTrue, NeverConflicts
  <1> QED BY <1>1, Invariance, PTL

LEMMA VersionsUnlocked == IInv => VersionLockIsFree
  <1> SUFFICES ASSUME IInv, NEW s \in Ingests, NEW r \in Ingests,
                      pc[s] = "write", r # s,
                      <<at[s], found[s][at[s]]>> \in vlocks[r]
               PROVE  FALSE
    BY DEF VersionLockIsFree
  <1>1. at[s] \in Paths /\ lock[at[s]] = s
    BY FileAtHand DEF InUpsert
  <1>2. found[s][at[s]] \in Nat
    BY <1>1 DEF IInv, TypeOK
  <1>3. found[r][at[s]] # 0
    BY <1>1, <1>2 DEF IInv, SessionInv, HoldsWhatItFound
  <1>4. lock[at[s]] = r
    BY <1>1, <1>3 DEF IInv, SessionInv, HoldsWhatItFound
  <1> QED BY <1>1, <1>4

\* _acquire_version_lock never waits.
THEOREM VersionLockNeverWaits == Spec => []VersionLockIsFree
  BY VersionsUnlocked, Invariance, PTL

\* Who waits does so for a document's lock, whose holder waits for a later one.
LEMMA WaitsForLater ==
  ASSUME IInv, NEW s \in Ingests, NEW r \in Ingests, WaitsFor(s, r)
  PROVE  /\ pc[s] = "lock" /\ at[s] \in Paths
         /\ pc[r] = "lock" => at[r] \in Paths /\ at[s] < at[r]
  <1>1. pc[s] # "write"
    BY VersionsUnlocked DEF WaitsFor, VersionLockIsFree
  <1>2. pc[s] # "create"
    <2>1. SUFFICES ASSUME pc[s] = "create" PROVE FALSE
      OBVIOUS
    <2>2. at[s] \in Paths /\ lock[at[s]] = s
      BY <2>1, FileAtHand DEF InUpsert
    <2>3. at[s] \in made[r] /\ s # r
      BY <2>1 DEF WaitsFor
    <2>4. found[r][at[s]] # 0
      BY <2>2, <2>3 DEF IInv, SessionInv, HoldsWhatItFound
    <2>5. lock[at[s]] = r
      BY <2>2, <2>4 DEF IInv, SessionInv, HoldsWhatItFound
    <2> QED BY <2>2, <2>3, <2>5
  <1>3. pc[s] = "lock" /\ lock[at[s]] = r
    BY <1>1, <1>2 DEF WaitsFor
  <1>4. at[s] \in Paths
    BY <1>3 DEF IInv, SessionInv, AtIsFirst
  <1>5. ASSUME pc[r] = "lock"
        PROVE  at[r] \in Paths /\ at[s] < at[r]
    <2>1. at[r] \in Paths /\ at[r] \in todo[r]
      BY <1>5 DEF IInv, SessionInv, AtIsFirst, FirstOf
    <2>2. \A q \in todo[r] : at[s] < q
      BY <1>3, <1>4, <1>5 DEF IInv, SessionInv, HoldsWhatItFound, InUpsert
    <2> QED BY <2>1, <2>2
  <1> QED BY <1>3, <1>4, <1>5

LEMMA LastOneWaitsForNone == IInv => NoDeadlock
  <1> SUFFICES ASSUME IInv, NEW S \in SUBSET Ingests, S # {},
                      \A s \in S : \E r \in S : WaitsFor(s, r)
               PROVE  FALSE
    BY DEF NoDeadlock
  <1>1. \A s \in S : pc[s] = "lock" /\ at[s] \in Paths
    BY WaitsForLater
  <1>2. \A s \in S : \E r \in S : at[s] < at[r]
    BY <1>1, WaitsForLater
  <1> DEFINE T == {NumPaths - at[s] : s \in S}
             Less == {pair \in Nat \X Nat : pair[1] < pair[2]}
  <1>3. T \subseteq Nat /\ T # {}
    BY <1>1, DocumentIngestAssumption DEF Paths
  <1>4. \A x, y \in Nat : x < y => <<x, y>> \in Less
    OBVIOUS
  <1>5. \E x \in T : \A y \in T : <<y, x>> \notin Less
    <2>1. IsWellFoundedOn(Less, Nat)
      BY NatLessThanWellFounded DEF OpToRel
    <2> HIDE DEF T, Less
    <2> QED BY <1>3, <2>1, WFMin
  <1>6. PICK s \in S : \A y \in T : <<y, NumPaths - at[s]>> \notin Less
    BY <1>5
  <1>7. PICK r \in S : at[s] < at[r]
    BY <1>2
  <1>8. NumPaths - at[r] < NumPaths - at[s]
    BY <1>1, <1>7, DocumentIngestAssumption DEF Paths
  <1> QED BY <1>3, <1>4, <1>6, <1>8

\* No cycle of ingestions ever waits for locks, however many files each has:
\* the files come in the order of the listing.
THEOREM DeadlockFree == Spec => []NoDeadlock
  BY LastOneWaitsForNone, Invariance, PTL

\* only a commit and a deletion change the documents
LEMMA WhoWrites ==
  ASSUME [Next]_vars
  PROVE  \/ \E s \in Ingests : Commit(s)
         \/ \E p \in Paths : \E i \in DOMAIN docs[p] : Delete(p, i)
         \/ UNCHANGED docs
  <1>1. ASSUME NEW s \in Ingests, Step(s) \/ Raise(s) \/ Crash(s)
        PROVE  Commit(s) \/ UNCHANGED docs
    BY <1>1 DEF Step, FetchFile, StartUpserts, NextFile, LockDocument, Find, Create,
                KeepVersion, WriteVersion, Return, Raise, Crash
  <1>2. Push => UNCHANGED docs
    BY DEF Push
  <1>3. UNCHANGED vars => UNCHANGED docs
    BY DEF vars
  <1> QED BY <1>1, <1>2, <1>3 DEF Next

\* No commit of an ingestion revives a deleted document.
THEOREM DeletedForGood == Spec => DeletionIsFinal
  <1>1. ASSUME IInv, [Next]_vars
        PROVE  \A p \in Paths : \A i \in DOMAIN docs[p] :
                 docs[p][i].deleted => docs'[p][i].deleted
    <2>1. ASSUME NEW s \in Ingests, Commit(s)
          PROVE  \A p \in Paths : \A i \in DOMAIN docs[p] :
                   docs'[p][i].deleted = docs[p][i].deleted
      BY <1>1, <2>1, CommitKeeps
    <2>2. ASSUME NEW p \in Paths, NEW i \in DOMAIN docs[p], Delete(p, i)
          PROVE  \A q \in Paths : OnlyDeletions(q)
      BY <1>1, <2>2, DeletedRows
    <2> QED BY <1>1, <2>1, <2>2, WhoWrites DEF OnlyDeletions
  <1>2. IInv /\ [Next]_vars =>
          [\A p \in Paths : \A i \in DOMAIN docs[p] :
             docs[p][i].deleted => docs'[p][i].deleted]_vars
    BY <1>1
  <1> QED BY <1>2, Invariance, PTL DEF Spec, DeletionIsFinal

-----------------------------------------------------------------------------
(* DocumentIngest implements DocumentCatalog.                              *)

\* What a session has found, and not made, is a row, the newest of its file.
LEMMA FoundRow ==
  ASSUME IInv, NEW s \in Ingests, NEW p \in Paths, found[s][p] # 0, p \notin made[s]
  PROVE  /\ docs[p] # <<>> /\ found[s][p] = Len(docs[p])
         /\ found[s][p] \in DOMAIN docs[p]
  BY LastInDomain DEF IInv, SessionInv, StillTrue

LEMMA SameOutdated ==
  ASSUME NEW s \in Ingests, found'[s] = found[s], made'[s] = made[s],
         \A p \in Paths : found[s][p] # 0 /\ p \notin made[s] =>
           docs'[p][found[s][p]].deleted = docs[p][found[s][p]].deleted
  PROVE  Outdated(s)' = Outdated(s)
  BY DEF Outdated

\* An ingestion that ends has found nothing, and the others what they had.
LEMMA EndedSession ==
  ASSUME IInv, NEW s \in Ingests, EndTransaction(s),
         \A p \in Paths : \A i \in DOMAIN docs[p] :
           docs'[p][i].deleted = docs[p][i].deleted
  PROVE  Catalog!Clear(s)
  <1>1. /\ found' = [found EXCEPT ![s] = [p \in Paths |-> 0]]
        /\ made' = [made EXCEPT ![s] = {}]
        /\ batch' = [batch EXCEPT ![s] = NoFiles]
    BY DEF EndTransaction
  <1>2. found'[s] = [p \in Paths |-> 0]
    BY <1>1 DEF IInv, TypeOK
  <1>3. Outdated(s)' = {}
    BY <1>2 DEF Outdated
  <1>4. ASSUME NEW r \in Ingests \ {s} PROVE Outdated(r)' = Outdated(r)
    <2>1. found'[r] = found[r] /\ made'[r] = made[r]
      BY <1>1 DEF IInv, TypeOK
    <2> QED BY <2>1, FoundRow, SameOutdated
  <1>5. [r \in Ingests |-> Outdated(r)]' =
          [[r \in Ingests |-> Outdated(r)] EXCEPT ![s] = {}]
    BY <1>3, <1>4
  <1> QED BY <1>1, <1>5 DEF Catalog!Clear, NoFiles, Catalog!NoFiles, Paths, Catalog!Paths

LEMMA CommitApplies ==
  ASSUME IInv, NEW s \in Ingests, Commit(s)
  PROVE  Catalog!Apply(s)
  <1>1. /\ pc[s] = "next" /\ todo[s] = {}
        /\ docs' = [p \in Paths |-> Committed(s, p)]
    BY DEF Commit
  <1> DEFINE
      Row(p) == IF batch[s][p] = NoContent THEN docs[p]
                ELSE IF Catalog!IsLive(p) \/ p \in Outdated(s)
                THEN Catalog!Revised(p, batch[s][p])
                ELSE Catalog!Created(p, batch[s][p])
  <1>2. ASSUME NEW p \in Paths
        PROVE  Committed(s, p) = Row(p)
    <2>1. CASE batch[s][p] = NoContent
      BY <1>1, <2>1, CommittedRows
    <2>2. CASE batch[s][p] # NoContent /\ p \in made[s]
      <3>1. /\ FindsNone(p)
            /\ Committed(s, p) = Append(docs[p], NewDoc(batch[s][p]))
        BY <1>1, <2>2, CommittedRows
      <3>2. ~Catalog!IsLive(p)
        BY <3>1, LastInDomain DEF IInv, FindsNone, Catalog!IsLive
      <3>3. Catalog!Created(p, batch[s][p]) = Append(docs[p], NewDoc(batch[s][p]))
        BY DEF Catalog!Created, NewDoc
      <3>4. p \notin Outdated(s)
        BY <2>2 DEF Outdated
      <3> QED BY <2>2, <3>1, <3>2, <3>3, <3>4
    <2>3. CASE batch[s][p] # NoContent /\ p \notin made[s]
      <3>1. docs[p] # <<>>
        BY <1>1, <2>3, CommittedRows
      <3>2. Committed(s, p) =
              IF Latest(LastDoc(p)).content = batch[s][p]
              THEN docs[p]
              ELSE [docs[p] EXCEPT ![Len(docs[p])].versions =
                      Append(@, [number |-> Latest(LastDoc(p)).number + 1,
                                 content |-> batch[s][p]])]
        BY <1>1, <2>3, CommittedRows
      <3>3. Catalog!Revised(p, batch[s][p]) =
              IF Latest(LastDoc(p)).content = batch[s][p]
              THEN docs[p]
              ELSE [docs[p] EXCEPT ![Len(docs[p])].versions =
                      Append(@, [number |-> Latest(LastDoc(p)).number + 1,
                                 content |-> batch[s][p]])]
        BY DEF Catalog!Revised, Latest, LastDoc
      <3>4. Catalog!IsLive(p) \/ p \in Outdated(s)
        <4>1. found[s][p] # 0
          BY <1>1, <2>3 DEF IInv, SessionInv, Progress, Working
        <4>2. found[s][p] = Len(docs[p])
          BY <2>3, <4>1, FoundRow
        <4> QED BY <2>3, <3>1, <4>1, <4>2 DEF Outdated, Catalog!IsLive
      <3> QED BY <2>3, <3>2, <3>3, <3>4
    <2> QED BY <2>1, <2>2, <2>3
  <1>3. docs' = [p \in Paths |-> Row(p)]
    BY <1>1, <1>2
  <1>4. Catalog!Clear(s)
    BY CommitKeeps, EndedSession DEF Commit
  <1> QED BY <1>3, <1>4 DEF Catalog!Apply, Paths, Catalog!Paths

\* The step of an ingestion that neither ends it nor looks a document up.
LEMMA SubmitStep ==
  ASSUME IInv, IInv', NEW s \in Ingests,
         \A r \in Ingests \ {s} : batch'[r] = batch[r],
         UNCHANGED <<docs, found, made>>
  PROVE  Catalog!Submit(s)
  <1>1. batch' \in [Ingests -> Catalog!Batches]
    BY DEF IInv, TypeOK, Catalog!Batches, Paths, Catalog!Paths
  <1>2. [r \in Ingests |-> Outdated(r)]' = [r \in Ingests |-> Outdated(r)]
    BY DEF Outdated
  <1> QED BY <1>1, <1>2 DEF Catalog!Submit

\* What an ingestion looks up or makes is not deleted.
LEMMA LookupStep ==
  ASSUME IInv, NEW s \in Ingests, Find(s) \/ Create(s)
  PROVE  Catalog!Withdraw(s) \/ UNCHANGED Catalog!vars
  <1>1. /\ pc[s] \in {"find", "create"} /\ UNCHANGED docs
        /\ at[s] \in Paths /\ found[s][at[s]] = 0
    <2>1. pc[s] \in {"find", "create"} /\ UNCHANGED docs
      BY DEF Find, Create
    <2>2. at[s] \in Paths /\ at[s] \in todo[s]
      BY <2>1 DEF IInv, SessionInv, AtIsFirst, FirstOf, InUpsert
    <2>3. found[s][at[s]] = 0
      BY <2>1, <2>2 DEF IInv, SessionInv, Progress, Working, InUpsert
    <2> QED BY <2>1, <2>2, <2>3
  <1>2. CASE EndTransaction(s)
    BY <1>1, <1>2, EndedSession DEF Catalog!Withdraw
  <1>3. CASE ~EndTransaction(s)
    <2>1. batch' = batch
      BY <1>3 DEF Find, Create
    <2>2. ASSUME NEW r \in Ingests \ {s} PROVE Outdated(r)' = Outdated(r)
      <3>1. found'[r] = found[r] /\ made'[r] = made[r]
        BY <1>3 DEF Find, Create, IInv, TypeOK
      <3> QED BY <1>1, <3>1, SameOutdated
    <2>3. ASSUME NEW p \in Paths PROVE p \in Outdated(s)' <=> p \in Outdated(s)
      <3>1. CASE p # at[s]
        <4>1. /\ found'[s][p] = found[s][p]
              /\ p \in made'[s] <=> p \in made[s]
          BY <1>1, <1>3, <3>1 DEF Find, Create, IInv, TypeOK
        <4> QED BY <1>1, <4>1 DEF Outdated
      <3>2. CASE p = at[s]
        <4>1. p \notin Outdated(s)
          BY <1>1, <3>2 DEF Outdated
        <4>2. \/ found'[s][p] = 0
              \/ p \in made'[s]
              \/ ~docs[p][found'[s][p]].deleted
          BY <1>1, <1>3, <3>2 DEF Find, Create, Finds, IInv, TypeOK
        <4> QED BY <1>1, <4>1, <4>2 DEF Outdated
      <3> QED BY <3>1, <3>2
    <2>4. Outdated(s)' = Outdated(s)
      BY <2>3 DEF Outdated
    <2>5. [r \in Ingests |-> Outdated(r)]' = [r \in Ingests |-> Outdated(r)]
      BY <2>2, <2>4
    <2> QED BY <1>1, <2>1, <2>5 DEF Catalog!vars
  <1> QED BY <1>2, <1>3

\* A deletion makes the document outdated for those that found it.
LEMMA DeleteStep ==
  ASSUME IInv, NEW p \in Paths, NEW i \in DOMAIN docs[p], Delete(p, i)
  PROVE  Catalog!Delete(p)
  <1>1. /\ docs' = [docs EXCEPT ![p][i].deleted = TRUE] /\ ~docs[p][i].deleted
        /\ UNCHANGED <<batch, found, made>>
    BY DEF Delete, sessionVars
  <1>2. docs[p] \in Seq(Document) /\ docs[p] # <<>>
    BY EmptySeq DEF IInv, TypeOK
  <1>3. i = Len(docs[p])
    BY <1>1, <1>2, LenProperties DEF IInv, DocsInv
  <1>4. Catalog!IsLive(p)
    BY <1>1, <1>2, <1>3 DEF Catalog!IsLive
  <1> DEFINE S == {r \in Ingests : found[r][p] # 0 /\ p \notin made[r]}
  <1>5. S \in SUBSET {r \in Ingests : batch[r][p] # NoContent}
    BY DEF IInv, SessionInv, HoldsWhatItFound
  <1>6. ASSUME NEW q \in Paths, NEW j \in DOMAIN docs[q]
        PROVE  docs'[q][j].deleted = IF q = p /\ j = i THEN TRUE ELSE docs[q][j].deleted
    <2>1. docs[q] \in Seq(Document) /\ j \in 1 .. Len(docs[q])
      BY LenProperties DEF IInv, TypeOK
    <2>2. docs[q][j] \in Document
      BY <2>1, ElementOfSeq
    <2>3. CASE q # p
      BY <1>1, <2>3 DEF IInv, TypeOK
    <2>4. CASE q = p
      <3>1. docs'[p] = [docs[p] EXCEPT ![i].deleted = TRUE]
        BY <1>1 DEF IInv, TypeOK
      <3>2. docs'[p][j] = IF j = i THEN [docs[p][i] EXCEPT !.deleted = TRUE] ELSE docs[p][j]
        BY <2>1, <2>4, <3>1
      <3>3. CASE j = i
        BY <2>2, <2>4, <3>2, <3>3, DeletedDoc DEF Document
      <3>4. CASE j # i
        BY <2>4, <3>2, <3>4
      <3> QED BY <3>3, <3>4
    <2> QED BY <2>3, <2>4
  <1>7. ASSUME NEW r \in Ingests
        PROVE  Outdated(r)' = IF r \in S THEN Outdated(r) \cup {p} ELSE Outdated(r)
    <2>1. ASSUME NEW q \in Paths, found[r][q] # 0, q \notin made[r]
          PROVE  docs'[q][found[r][q]].deleted =
                   IF q = p THEN TRUE ELSE docs[q][found[r][q]].deleted
      <3>1. found[r][q] \in DOMAIN docs[q] /\ found[r][q] = Len(docs[q])
        BY <2>1, FoundRow
      <3> QED BY <1>3, <1>6, <3>1
    <2> QED BY <1>1, <2>1 DEF Outdated
  <1>8. [r \in Ingests |-> Outdated(r)]' =
          [r \in Ingests |-> IF r \in S THEN [x \in Ingests |-> Outdated(x)][r] \cup {p}
                             ELSE [x \in Ingests |-> Outdated(x)][r]]
    BY <1>7
  <1> HIDE DEF S
  <1> QED BY <1>1, <1>3, <1>4, <1>5, <1>8 DEF Catalog!Delete

LEMMA StepApplies ==
  ASSUME IInv, [Next]_vars
  PROVE  [Catalog!Next]_(Catalog!vars)
  <1>1. IInv'
    BY NextIInv
  <1>2. ASSUME NEW s \in Ingests,
               \/ FetchFile(s) \/ StartUpserts(s) \/ NextFile(s) \/ LockDocument(s)
               \/ KeepVersion(s) \/ WriteVersion(s) \/ Return(s)
        PROVE  Catalog!Submit(s)
    <2>1. UNCHANGED <<docs, found, made>>
      BY <1>2 DEF FetchFile, StartUpserts, NextFile, LockDocument, KeepVersion,
                  WriteVersion, Return, sessionVars
    <2>2. \A r \in Ingests \ {s} : batch'[r] = batch[r]
      BY <1>2 DEF FetchFile, StartUpserts, NextFile, LockDocument, KeepVersion,
                  WriteVersion, Return, sessionVars, IInv, TypeOK
    <2> QED BY <1>1, <2>1, <2>2, SubmitStep
  <1>3. ASSUME NEW s \in Ingests, Raise(s) \/ Crash(s)
        PROVE  Catalog!Withdraw(s)
    <2>1. EndTransaction(s) /\ UNCHANGED docs
      BY <1>3 DEF Raise, Crash
    <2> QED BY <2>1, EndedSession DEF Catalog!Withdraw
  <1>4. ASSUME Push \/ UNCHANGED vars PROVE UNCHANGED Catalog!vars
    <2>1. UNCHANGED <<docs, batch, found, made>>
      BY <1>4 DEF Push, vars, sessionVars
    <2>2. [r \in Ingests |-> Outdated(r)]' = [r \in Ingests |-> Outdated(r)]
      BY <2>1 DEF Outdated
    <2> QED BY <2>1, <2>2 DEF Catalog!vars
  <1> QED BY <1>2, <1>3, <1>4, LookupStep, CommitApplies, DeleteStep
          DEF Next, Step, Catalog!Next, Paths, Catalog!Paths

\* Ingestions that read and write step by step, concurrently, and that fail and
\* run again, look as if each took effect at once or not at all.
THEOREM ImplementsCatalog == Spec => CatalogSpec
  <1>1. Init => Catalog!Init
    BY DEF Init, Outdated, Catalog!Init, NoFiles, Catalog!NoFiles, Paths, Catalog!Paths
  <1>2. IInv /\ [Next]_vars => [Catalog!Next]_(Catalog!vars)
    BY StepApplies
  <1> QED BY <1>1, <1>2, Invariance, PTL DEF Spec, CatalogSpec, Catalog!Spec

-----------------------------------------------------------------------------
(* What the catalog promises, and so what DocumentIngest keeps.            *)

LEMMA FirstVersion ==
  ASSUME NEW c
  PROVE  Numbered(NewDoc(c).versions)
  BY DEF Numbered, NewDoc

LEMMA NextVersion ==
  ASSUME NEW vs \in Seq(Version), vs # <<>>, Numbered(vs), NEW c \in Contents,
         vs[Len(vs)].content # c
  PROVE  Numbered(Append(vs, [number |-> vs[Len(vs)].number + 1, content |-> c]))
  <1> DEFINE v == [number |-> vs[Len(vs)].number + 1, content |-> c]
             m == Len(vs)
  <1>1. m \in Nat /\ m > 0 /\ DOMAIN vs = 1 .. m
    BY EmptySeq, LenProperties
  <1>2. v \in Version
    <2>1. vs[m] \in Version
      BY <1>1, ElementOfSeq
    <2> QED BY <2>1 DEF Version
  <1>3. v.number = m + 1 /\ v.content = c
    BY <1>1 DEF Numbered
  <1> HIDE DEF v
  <1>4. /\ Append(vs, v) \in Seq(Version) /\ Len(Append(vs, v)) = m + 1
        /\ \A i \in 1 .. m : Append(vs, v)[i] = vs[i]
        /\ Append(vs, v)[m + 1] = v
    BY <1>2, AppendProperties
  <1>5. DOMAIN Append(vs, v) = 1 .. (m + 1)
    BY <1>4, LenProperties
  <1> DEFINE w == Append(vs, v)
  <1> HIDE DEF w
  <1>6. ASSUME NEW n \in 1 .. (m + 1)
        PROVE  w[n].number = n /\ (n > 1 => w[n].content # w[n - 1].content)
    <2>1. CASE n \in 1 .. m
      <3>1. w[n] = vs[n] /\ (n > 1 => w[n - 1] = vs[n - 1])
        BY <1>1, <1>4, <2>1 DEF w
      <3> QED BY <1>1, <2>1, <3>1 DEF Numbered
    <2>2. CASE n = m + 1
      <3>1. w[n] = v
        BY <1>4, <2>2 DEF w
      <3>2. n - 1 = m /\ m \in 1 .. m
        BY <1>1, <2>2
      <3>3. w[n - 1] = vs[m]
        BY <1>4, <3>2 DEF w
      <3> QED BY <1>3, <2>2, <3>1, <3>3
    <2> QED BY <1>1, <2>1, <2>2
  <1>7. Numbered(w)
    BY <1>5, <1>6 DEF Numbered, w
  <1> QED BY <1>7 DEF w, v

LEMMA AppliedInOrder ==
  ASSUME IInv, CatalogInOrder, NEW s \in Ingests, Catalog!Apply(s)
  PROVE  CatalogInOrder'
  <1>0. TypeOK /\ \A p \in Outdated(s) : docs[p] # <<>>
    BY FoundRow DEF IInv, Outdated
  <1>1. docs' = [p \in Paths |->
            IF batch[s][p] = NoContent THEN docs[p]
            ELSE IF Catalog!IsLive(p) \/ p \in Outdated(s)
                 THEN Catalog!Revised(p, batch[s][p])
                 ELSE Catalog!Created(p, batch[s][p])]
    BY DEF Catalog!Apply, Paths, Catalog!Paths
  <1>2. ASSUME NEW p \in Paths, batch[s][p] # NoContent PROVE InOrder(docs'[p])
    <2> DEFINE c == batch[s][p]
               rows == docs[p]
    <2>1. rows \in Seq(Document) /\ InOrder(rows) /\ c \in Contents
      BY <1>0, <1>2 DEF TypeOK, CatalogInOrder
    <2>2. CASE Catalog!IsLive(p) \/ p \in Outdated(s)
      <3>1. docs'[p] = Catalog!Revised(p, c) /\ rows # <<>>
        BY <1>0, <1>1, <1>2, <2>2 DEF Catalog!IsLive
      <3> DEFINE last == rows[Len(rows)]
                 v == [number |-> Latest(last).number + 1, content |-> c]
      <3>2. Len(rows) \in DOMAIN rows /\ last \in Document
        <4>1. Len(rows) \in DOMAIN rows
          BY <1>0, <3>1, LastInDomain
        <4> QED BY <2>1, <4>1, ElementOfSeq, LenProperties
      <3>3. /\ last.versions \in Seq(Version) /\ last.versions # <<>>
            /\ Numbered(last.versions)
        BY <2>1, <3>2 DEF InOrder, GoodRows, Document
      <3>4. CASE Latest(last).content = c
        <4>1. docs'[p] = rows
          BY <3>1, <3>4 DEF Catalog!Revised, Latest
        <4> QED BY <2>1, <4>1
      <3>5. CASE Latest(last).content # c
        <4>1. docs'[p] = [rows EXCEPT ![Len(rows)].versions = Append(@, v)]
          BY <3>1, <3>5 DEF Catalog!Revised, Latest
        <4>2. v \in Version
          <5>1. Len(last.versions) \in 1 .. Len(last.versions)
            BY <3>3, EmptySeq, LenProperties
          <5>2. Latest(last) \in Version
            BY <3>3, <5>1, ElementOfSeq DEF Latest
          <5> QED BY <2>1, <5>2 DEF Version
        <4>3. Numbered(Append(last.versions, v))
          BY <2>1, <3>3, <3>5, NextVersion DEF Latest
        <4> HIDE DEF v
        <4>4. PICK new : new = docs'[p]
          OBVIOUS
        <4>5. /\ GoodRows(new) /\ DOMAIN new = DOMAIN rows
              /\ \A i \in DOMAIN rows : i # Len(rows) => new[i] = rows[i]
              /\ new[Len(rows)].versions = Append(last.versions, v)
          <5>1. rows \in Seq(Document) /\ rows # <<>> /\ GoodRows(rows)
            BY <2>1, <3>1 DEF InOrder
          <5>2. new = WithVersion(rows, v)
            BY <4>1, <4>4 DEF WithVersion
          <5>3. /\ GoodRows(new) /\ DOMAIN new = DOMAIN rows
                /\ \A i \in DOMAIN rows : i # Len(rows) => new[i] = rows[i]
                /\ new[Len(rows)] = [deleted |-> rows[Len(rows)].deleted,
                                    versions |-> Append(rows[Len(rows)].versions, v)]
            <6> HIDE DEF rows
            <6> QED BY <4>2, <5>1, <5>2, RevisedRow
          <5> QED BY <5>3
        <4>6. \A i \in DOMAIN new : Numbered(new[i].versions)
          BY <2>1, <4>3, <4>5 DEF InOrder
        <4> QED BY <4>4, <4>5, <4>6 DEF InOrder
      <3> QED BY <3>4, <3>5
    <2>3. CASE ~(Catalog!IsLive(p) \/ p \in Outdated(s))
      <3>1. docs'[p] = Append(rows, NewDoc(c))
        BY <1>1, <1>2, <2>3 DEF Catalog!Created, NewDoc
      <3>2. \A i \in DOMAIN rows : rows[i].deleted /\ rows[i].versions # <<>>
        <4> SUFFICES ASSUME NEW i \in DOMAIN rows
                     PROVE  rows[i].deleted /\ rows[i].versions # <<>>
          OBVIOUS
        <4>1. rows[i].versions # <<>> /\ (i < Len(rows) => rows[i].deleted)
          BY <2>1 DEF InOrder, GoodRows
        <4>2. i \in 1 .. Len(rows) /\ Len(rows) \in Nat /\ rows # <<>>
          BY <2>1, LenProperties, EmptySeq
        <4>3. rows[Len(rows)].deleted
          BY <2>3, <4>2 DEF Catalog!IsLive
        <4> QED BY <4>1, <4>2, <4>3
      <3>3. NewDoc(c) \in Document /\ NewDoc(c).versions # <<>>
        BY <2>1 DEF NewDoc, Document, Version
      <3>4. /\ Append(rows, NewDoc(c)) \in Seq(Document)
            /\ GoodRows(Append(rows, NewDoc(c)))
            /\ \A i \in DOMAIN rows : Append(rows, NewDoc(c))[i] = rows[i]
            /\ Len(Append(rows, NewDoc(c))) = Len(rows) + 1
            /\ Append(rows, NewDoc(c))[Len(rows) + 1] = NewDoc(c)
        BY <2>1, <3>2, <3>3, AppendedRows, AppendProperties
      <3>5. ASSUME NEW i \in DOMAIN Append(rows, NewDoc(c))
            PROVE  Numbered(Append(rows, NewDoc(c))[i].versions)
        <4>1. i \in 1 .. (Len(rows) + 1) /\ Len(rows) \in Nat /\ DOMAIN rows = 1 .. Len(rows)
          BY <2>1, <3>4, <3>5, LenProperties
        <4>2. CASE i \in DOMAIN rows
          BY <2>1, <3>4, <4>2 DEF InOrder
        <4>3. CASE i = Len(rows) + 1
          BY <3>4, <4>3, FirstVersion
        <4> QED BY <4>1, <4>2, <4>3
      <3> QED BY <3>1, <3>4, <3>5 DEF InOrder
    <2> QED BY <2>2, <2>3
  <1>3. ASSUME NEW p \in Paths, batch[s][p] = NoContent PROVE InOrder(docs'[p])
    BY <1>1, <1>3 DEF CatalogInOrder
  <1> QED BY <1>2, <1>3 DEF CatalogInOrder

LEMMA DeletedInOrder ==
  ASSUME TypeOK, CatalogInOrder, NEW p \in Paths, Catalog!Delete(p)
  PROVE  CatalogInOrder'
  <1> DEFINE i == Len(docs[p])
             doc == [deleted |-> TRUE, versions |-> docs[p][i].versions]
             new == [docs[p] EXCEPT ![i] = doc]
  <1>1. /\ docs[p] \in Seq(Document) /\ i \in 1 .. Len(docs[p])
        /\ DOMAIN docs[p] = 1 .. Len(docs[p]) /\ InOrder(docs[p])
    BY LastInDomain, LenProperties DEF TypeOK, CatalogInOrder, Catalog!Delete,
                                       Catalog!IsLive
  <1>2. docs[p][i] \in Document
    BY <1>1, ElementOfSeq
  <1>3. doc \in Document /\ [docs[p][i] EXCEPT !.deleted = TRUE] = doc
    BY <1>2, DeletedDoc DEF Document
  <1>4. docs' = [docs EXCEPT ![p] = new]
    BY <1>3 DEF Catalog!Delete
  <1>5. doc.deleted /\ doc.versions = docs[p][i].versions
    OBVIOUS
  <1> HIDE DEF doc
  <1>6. /\ Len(new) = Len(docs[p]) /\ DOMAIN new = 1 .. Len(docs[p])
        /\ \A j \in 1 .. Len(docs[p]) : j # i => new[j] = docs[p][j]
        /\ new[i] = doc
    BY <1>1, <1>3, ReplacedRow
  <1> HIDE DEF new
  <1>7. InOrder(new)
    <2>1. \A j \in 1 .. Len(docs[p]) :
            /\ new[j].versions = docs[p][j].versions
            /\ docs[p][j].deleted => new[j].deleted
      BY <1>5, <1>6
    <2> QED BY <1>1, <1>6, <2>1 DEF InOrder, GoodRows
  <1>8. docs'[p] = new /\ \A q \in Paths : q # p => docs'[q] = docs[q]
    BY <1>4 DEF TypeOK
  <1> QED BY <1>7, <1>8 DEF CatalogInOrder

\* However many ingestions of a file run at once, fail and run again, its versions
\* count up from 1 without a gap or a double, no version repeats the one before, and
\* at most one document of the file is live.  It is shown of the catalog, one whole
\* ingestion at a time, and holds of DocumentIngest because that implements it.
THEOREM VersionsCountUp == Spec => []CatalogInOrder
  <1>1. Catalog!Init => CatalogInOrder
    BY EmptySeq DEF Catalog!Init, CatalogInOrder, InOrder, GoodRows, Numbered, Paths,
       Catalog!Paths
  <1>2. IInv /\ CatalogInOrder /\ [Catalog!Next]_(Catalog!vars) => CatalogInOrder'
    <2>1. ASSUME NEW s \in Ingests, Catalog!Submit(s) \/ Catalog!Withdraw(s)
          PROVE  docs' = docs
      BY <2>1 DEF Catalog!Submit, Catalog!Withdraw
    <2>2. docs' = docs /\ CatalogInOrder => CatalogInOrder'
      BY DEF CatalogInOrder
    <2>3. UNCHANGED Catalog!vars => docs' = docs
      BY DEF Catalog!vars
    <2>4. IInv => TypeOK
      BY DEF IInv
    <2> QED BY <2>1, <2>2, <2>3, <2>4, AppliedInOrder, DeletedInOrder
            DEF Catalog!Next, Paths, Catalog!Paths
  <1> QED
    BY <1>1, <1>2, Invariance, ImplementsCatalog, PTL DEF CatalogSpec, Catalog!Spec
=============================================================================
