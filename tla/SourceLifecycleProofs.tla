----------------------- MODULE SourceLifecycleProofs -----------------------
(***************************************************************************)
(* Proofs about SourceLifecycle, for any number of requests and deletions  *)
(* and any identities: the inductive invariant, that the code implements   *)
(* SourceNames, that SourceNames keeps owners apart, and with both that no *)
(* two sources in use share a name.                                        *)
(***************************************************************************)
EXTENDS SourceLifecycle, TLAPS

\* The rows that are inserted, and the one that stands for no row.
LEMMA RowFacts ==
  /\ NoSource \in RowType /\ NoSource.status = "absent"
  /\ \A a \in IdentityType, n \in Ids \cup {Nobody} :
       /\ Source(a, n) \in RowType
       /\ Source(a, n).status = "live" /\ Source(a, n).identity = a
BY DEF NoSource, Source, RowType

\* Every answer of POST /sources is an answer.
LEMMA AnswerFacts ==
  /\ Unanswered \in AnswerType
  /\ \A kind \in {"created", "conflict", "namespace", "invalid", "error"},
        uuid \in Ids \cup {Nobody} : Answer(kind, uuid) \in AnswerType
BY DEF Answer, Unanswered, AnswerType

\* The table starts empty and no request is answered.
LEMMA InitIInv == Init => IInv
<1> SUFFICES ASSUME Init PROVE IInv
  OBVIOUS
<1>1. TypeOK
  BY RowFacts, AnswerFacts, SourceAssumption
  DEF Init, TypeOK
<1>2. Inserting
  BY RowFacts DEF Init, Inserting, Ids
<1> QED BY <1>1, <1>2 DEF IInv

----------------------------------------------------------------------------
(* Every step keeps the invariant *)

\* Steps of a request other than its INSERT change no row.
LEMMA LookSteps ==
  ASSUME IInv, NEW c \in Creators,
         \/ FindKey(c) \/ FindName(c) \/ FindDirectory(c) \/ CheckForm(c)
  PROVE  /\ IInv'
         /\ UNCHANGED table
         /\ pc[c] # "done"
<1>1. /\ UNCHANGED <<table, dpc, victim, read, cleanup, removals, faults>>
      /\ pc[c] # "done"
  BY DEF FindKey, FindName, FindDirectory, CheckForm, deleteVars
<1>2. /\ pc' \in [Creators -> {"key", "name", "directory", "form", "save", "done"}]
      /\ origin' \in [Creators -> {"request", "form", "save"}]
      /\ answer' \in [Creators -> AnswerType]
      /\ \A e \in Creators : pc'[e] # "done" => pc[e] # "done" /\ answer'[e] = answer[e]
  <2>1. CASE \E kind \in {"conflict", "namespace", "invalid", "error"},
                uuid \in Ids \cup {Nobody} : Reply(c, kind, uuid)
    BY <2>1, AnswerFacts DEF Reply, IInv, TypeOK
  <2>2. CASE \E where \in {"name", "directory", "form", "save"} : Goto(c, where)
    BY <1>1, <2>2 DEF Goto, IInv, TypeOK
  <2>3. CASE LookAgain(c, "form")
    BY <1>1, <2>3 DEF LookAgain, IInv, TypeOK
  <2>4. \A i \in Holders("key", Want[c]) : i \in Ids
    BY DEF Holders
  <2> QED BY <2>1, <2>2, <2>3, <2>4
      DEF FindKey, FindName, FindDirectory, CheckForm
<1>3. TypeOK'
  BY <1>1, <1>2 DEF IInv, TypeOK
<1>4. Inserting'
  BY <1>1, <1>2 DEF IInv, Inserting
<1> QED BY <1>1, <1>3, <1>4 DEF IInv

\* The INSERT of a request, or its failure.
LEMMA SaveSteps ==
  ASSUME IInv, NEW c \in Creators, Save(c) \/ SaveInterrupted(c)
  PROVE  IInv'
<1>1. /\ UNCHANGED <<dpc, victim, read, cleanup, removals>>
      /\ faults' \in Nat
      /\ pc[c] # "done"
  BY DEF Save, SaveInterrupted, deleteVars, IInv, TypeOK
<1>2. CASE LookAgain(c, "save") /\ UNCHANGED table
  <2>1. TypeOK'
    BY <1>1, <1>2 DEF IInv, TypeOK, LookAgain
  <2>2. Inserting'
    BY <1>1, <1>2 DEF IInv, TypeOK, Inserting, LookAgain
  <2> QED BY <2>1, <2>2 DEF IInv
<1>3. CASE /\ \E kind \in {"created", "error"}, uuid \in Ids \cup {Nobody} :
                Reply(c, kind, uuid)
           /\ table' = [table EXCEPT ![c] = Source(Want[c], Nobody)]
  <2>1. Want[c] \in IdentityType /\ c \in Ids
    BY SourceAssumption DEF Ids
  <2>2. TypeOK'
    BY <1>1, <1>3, <2>1, RowFacts, AnswerFacts DEF IInv, TypeOK, Reply
  <2>3. /\ \A i \in Ids \ {c} : table'[i] = table[i]
        /\ table'[c].identity = Want[c]
        /\ pc'[c] = "done"
        /\ \A e \in Creators \ {c} : pc'[e] = pc[e] /\ answer'[e] = answer[e]
    BY <1>3, <2>1, RowFacts DEF IInv, TypeOK, Reply
  <2>4. Inserting'
    BY <1>1, <2>3, SourceAssumption DEF IInv, Inserting, Ids
  <2> QED BY <2>2, <2>4 DEF IInv
<1> QED BY <1>2, <1>3 DEF Save, SaveInterrupted, Ids

\* What a deleted row leaves.
LEMMA DeleteFacts ==
  ASSUME IInv, NEW v \in Ids, NEW scheduled \in SUBSET Ids, Delete(v, scheduled)
  PROVE  /\ table' = [table EXCEPT ![v] = NoSource]
         /\ cleanup' \in SUBSET Ids /\ removals' \in BOOLEAN
         /\ table' \in [Ids -> RowType]
         /\ \A i \in Ids : table'[i] = table[i] \/ table'[i].status = "absent"
BY RowFacts DEF Delete, IInv, TypeOK

\* Deletion's steps, but for the placeholder's INSERT, only take rows away.
LEMMA RemovalSteps ==
  ASSUME IInv,
         \/ \E d \in Deleters : Open(d) \/ Rename(d) \/ Refresh(d) \/ Finish(d)
                                \/ DeleterDies(d) \/ FinishInterrupted(d)
         \/ \E i \in Ids : Sweep(i) \/ RunCleanup(i) \/ CleanupFails(i)
  PROVE  /\ IInv'
         /\ UNCHANGED <<pc, origin, answer>>
         /\ \A i \in Ids : \/ table'[i] = table[i]
                           \/ table'[i].status # "live"
<1>1. UNCHANGED <<pc, origin, answer>> /\ faults' \in Nat
  <2>1. faults \in Nat /\ faults + 1 \in Nat
    BY DEF IInv, TypeOK
  <2>2. faults' \in {faults, faults + 1} /\ UNCHANGED createVars
    BY DEF Open, Rename, Refresh, Finish, DeleterDies, FinishInterrupted, Sweep,
       RunCleanup, CleanupFails
  <2> QED BY <2>1, <2>2 DEF createVars
<1> DEFINE Shrinks ==
             /\ table' \in [Ids -> RowType]
             /\ cleanup' \in SUBSET Ids /\ removals' \in BOOLEAN
             /\ \A i \in Ids :
                  \/ table'[i] = table[i]
                  \/ table'[i].status = "absent"
                  \/ /\ table[i].status # "absent" /\ table'[i].status = "deleted"
                     /\ table'[i].identity = table[i].identity
           Forward ==
             /\ dpc' \in [Deleters -> {"idle", "opened", "renamed", "refreshed",
                                       "replaced", "done"}]
             /\ victim' \in [Deleters -> Ids \cup {Nobody}]
             /\ read' \in [Deleters -> IdentityType \cup {Nobody}]
             /\ \A d \in Deleters :
                  \/ dpc'[d] = dpc[d] /\ victim'[d] = victim[d] /\ read'[d] = read[d]
                  \/ /\ dpc[d] # "idle" /\ dpc'[d] \in {"renamed", "refreshed", "done"}
                     /\ dpc'[d] # "done" => dpc[d] \in {"opened", "renamed"}
                     /\ victim'[d] = victim[d] /\ read'[d] = read[d]
                  \/ /\ dpc[d] = "idle" /\ dpc'[d] = "opened"
                     /\ victim'[d] \in Ids /\ table[victim'[d]].status # "absent"
                     /\ read'[d] = table[victim'[d]].identity
<1>2. ASSUME NEW d \in Deleters, Open(d) PROVE Shrinks /\ Forward
  BY <1>2 DEF Open, Step, IInv, TypeOK, RowType
<1>3. ASSUME NEW d \in Deleters, Rename(d) PROVE Shrinks /\ Forward
  <2>1. victim[d] \in Ids
    BY <1>3 DEF Rename, IInv, Inserting
  <2>2. Forward
    BY <1>3 DEF Rename, Step, IInv, TypeOK
  <2>3. Shrinks
    <3>1. CASE UNCHANGED <<table, cleanup, removals>>
      BY <3>1 DEF IInv, TypeOK
    <3>2. CASE /\ table[victim[d]].status # "absent"
               /\ table' = [table EXCEPT ![victim[d]].status = "deleted"]
               /\ removals' = TRUE /\ cleanup' = cleanup
      BY <2>1, <3>2 DEF IInv, TypeOK, RowType
    <3> QED BY <1>3, <3>1, <3>2 DEF Rename
  <2> QED BY <2>2, <2>3
<1>4. ASSUME NEW d \in Deleters, Refresh(d) \/ DeleterDies(d) PROVE Shrinks /\ Forward
  BY <1>4 DEF Refresh, DeleterDies, Step, IInv, TypeOK
<1>5. ASSUME NEW d \in Deleters, Finish(d) \/ FinishInterrupted(d)
      PROVE  Shrinks /\ Forward
  <2>1. victim[d] \in Ids /\ cleanup \in SUBSET Ids
    BY <1>5 DEF Finish, FinishInterrupted, IInv, Inserting, TypeOK
  <2>2. Forward
    BY <1>5 DEF Finish, FinishInterrupted, Step, IInv, TypeOK
  <2>3. Shrinks
    <3>1. CASE UNCHANGED <<table, cleanup, removals>>
      BY <3>1 DEF IInv, TypeOK
    <3>2. CASE Delete(victim[d], cleanup)
      BY <2>1, <3>2, DeleteFacts
    <3>3. CASE FinishInterrupted(d)
      BY <2>1, <3>3, RowFacts DEF FinishInterrupted, IInv, TypeOK
    <3> QED BY <1>5, <3>1, <3>2, <3>3 DEF Finish
  <2> QED BY <2>2, <2>3
<1>6. ASSUME NEW i \in Ids, Sweep(i) \/ RunCleanup(i) \/ CleanupFails(i)
      PROVE  Shrinks /\ Forward
  <2>1. cleanup \in SUBSET Ids /\ cleanup \ {i} \in SUBSET Ids
    BY DEF IInv, TypeOK
  <2>2. Forward
    BY <1>6 DEF Sweep, RunCleanup, CleanupFails, IInv, TypeOK
  <2>3. Shrinks
    BY <1>6, <2>1, DeleteFacts DEF Sweep, RunCleanup, CleanupFails, IInv, TypeOK
  <2> QED BY <2>2, <2>3
<1>7. Shrinks /\ Forward
  BY <1>2, <1>3, <1>4, <1>5, <1>6
<1>8. TypeOK'
  BY <1>1, <1>7 DEF IInv, TypeOK
<1>9. Inserting'
  <2>1. \A c \in Creators : c \in Ids
    BY DEF Ids
  <2>2. ASSUME NEW c \in Creators, pc'[c] # "done"
        PROVE  table'[c].status = "absent" /\ answer'[c] = Unanswered
    BY <1>1, <1>7, <2>1, <2>2 DEF IInv, Inserting
  <2>3. ASSUME NEW i \in Ids, table'[i].status # "absent"
        PROVE  \E c \in Creators : table'[i].identity = Want[c]
    BY <1>7, <2>3 DEF IInv, Inserting
  <2>4. ASSUME NEW d \in Deleters
        PROVE  /\ dpc'[d] \in {"idle", "opened", "renamed", "refreshed"} =>
                    table'[d].status = "absent"
               /\ dpc'[d] # "idle" =>
                    victim'[d] \in Ids /\ \E c \in Creators : read'[d] = Want[c]
    BY <1>7 DEF IInv, Inserting, Ids
  <2> QED BY <2>2, <2>3, <2>4 DEF Inserting
<1> QED BY <1>1, <1>7, <1>8, <1>9 DEF IInv

\* The placeholder's INSERT.
LEMMA ReplaceStep ==
  ASSUME IInv, NEW d \in Deleters, Replace(d)
  PROVE  IInv'
<1>1. /\ victim[d] \in Ids /\ d \in Ids
      /\ \E c \in Creators : read[d] = Want[c]
      /\ read[d] \in IdentityType
  BY SourceAssumption DEF Replace, IInv, Inserting, Ids
<1>2. UNCHANGED <<pc, origin, answer, victim, read, cleanup, removals, faults>>
  BY DEF Replace, createVars
<1>3. /\ dpc' \in [Deleters -> {"idle", "opened", "renamed", "refreshed", "replaced",
                                "done"}]
      /\ dpc[d] # "idle" /\ dpc'[d] \in {"replaced", "done"}
      /\ \A e \in Deleters \ {d} : dpc'[e] = dpc[e]
  BY DEF Replace, Step, IInv, TypeOK
<1>4. /\ table' \in [Ids -> RowType]
      /\ \A i \in Ids \ {d} : table'[i] = table[i]
      /\ table'[d] = table[d] \/ table'[d].identity = read[d]
  BY <1>1, RowFacts DEF Replace, IInv, TypeOK
<1>5. TypeOK'
  BY <1>2, <1>3, <1>4 DEF IInv, TypeOK
<1>6. Inserting'
  BY <1>1, <1>2, <1>3, <1>4, SourceAssumption DEF IInv, Inserting, Ids
<1> QED BY <1>5, <1>6 DEF IInv

\* Every step of the requests, deletions and tasks keeps the invariant.
LEMMA NextIInv == IInv /\ [Next]_vars => IInv'
<1> SUFFICES ASSUME IInv, [Next]_vars PROVE IInv'
  OBVIOUS
<1>1. ASSUME NEW c \in Creators, Create(c) \/ SaveInterrupted(c) PROVE IInv'
  BY <1>1, LookSteps, SaveSteps DEF Create
<1>2. ASSUME NEW d \in Deleters, DeleteView(d) \/ DeleterDies(d) \/ FinishInterrupted(d)
      PROVE  IInv'
  BY <1>2, RemovalSteps, ReplaceStep DEF DeleteView
<1>3. ASSUME NEW i \in Ids, Background(i) \/ CleanupFails(i) PROVE IInv'
  BY <1>3, RemovalSteps DEF Background
<1>4. CASE UNCHANGED vars
  BY <1>4 DEF vars, createVars, deleteVars, IInv, TypeOK, Inserting
<1> QED BY <1>1, <1>2, <1>3, <1>4 DEF Next, Fault

----------------------------------------------------------------------------
(* The code implements SourceNames *)

\* How the table and what it owns correspond.
LEMMA OwnsFacts ==
  ASSUME IInv
  PROVE  /\ \A i \in Ids : owns[i] # Nobody <=> table[i].status = "live"
         /\ \A i \in Ids : table[i].status = "live" => owns[i] = table[i].identity
<1>1. \A c \in Creators : Want[c] # Nobody
  BY SourceAssumption
<1>2. \A i \in Ids : table[i].status # "absent" => table[i].identity # Nobody
  BY <1>1 DEF IInv, Inserting
<1> QED BY <1>2 DEF owns

\* Nobody holds any field of an identity exactly when it is free.
LEMMA FreeFacts ==
  ASSUME IInv, NEW a, Clashes(a) = {}
  PROVE  Names!Free(a)
<1> SUFFICES ASSUME NEW i \in Ids, owns[i] # Nobody,
                    Names!Clash(owns[i], a)
             PROVE  FALSE
  BY DEF Names!Free
<1>1. table[i].status = "live" /\ owns[i] = table[i].identity
  BY OwnsFacts
<1>2. PICK f \in Fields : table[i].identity[f] = a[f]
  BY <1>1 DEF Names!Clash, Names!SameKey, Names!SamePlace, Fields
<1>3. i \in Holders(f, a)
  BY <1>1, <1>2 DEF Holders
<1> QED BY <1>3 DEF Clashes

\* An empty table owns nothing.
LEMMA InitRefines == Init => Names!Init
BY DEF Init, Names!Init, owns, NoSource, Unanswered, Names!Unanswered

\* A request's steps: it looks on (a stutter), or gives a true answer.
LEMMA CreateRefines ==
  ASSUME IInv, NEW c \in Creators, Create(c) \/ SaveInterrupted(c)
  PROVE  [Names!Next]_(Names!namesVars)
<1> USE DEF Names!namesVars
<1>1. c \in Ids /\ pc[c] # "done" /\ answer[c] = Names!Unanswered
      /\ table[c].status = "absent" /\ owns[c] = Nobody
  <2>1. c \in Ids /\ pc[c] # "done"
    BY DEF Create, FindKey, FindName, FindDirectory, CheckForm, Save,
       SaveInterrupted, Ids
  <2> QED BY <2>1 DEF IInv, Inserting, Unanswered, Names!Unanswered, owns
<1>2. \A kind, uuid : Reply(c, kind, uuid) => Names!Tell(c, kind, uuid)
  BY <1>1 DEF Reply, Names!Tell, Answer, Names!Answer
<1>3. ASSUME UNCHANGED table PROVE owns' = owns
  BY <1>3 DEF owns
<1>4. CASE FindKey(c)
  <2>1. CASE UNCHANGED answer
    BY <1>3, <1>4, <2>1 DEF FindKey
  <2>2. ASSUME NEW i \in Holders("key", Want[c]), Reply(c, "conflict", i)
        PROVE  Names!Next
    <3>1. i \in Ids /\ table[i].status = "live" /\ table[i].identity["key"] = Want[c]["key"]
      BY DEF Holders
    <3>2. owns[i] # Nobody /\ Names!SameKey(owns[i], Want[c])
      BY <3>1, OwnsFacts DEF Names!SameKey
    <3>3. Names!Conflict(c, i)
      BY <1>2, <1>3, <1>4, <2>2, <3>2 DEF Names!Conflict, FindKey
    <3> QED BY <3>1, <3>3 DEF Names!Next
  <2> QED BY <1>4, <2>1, <2>2 DEF FindKey, Goto
<1>5. CASE FindName(c) \/ FindDirectory(c)
  <2>1. CASE UNCHANGED answer
    BY <1>3, <1>5, <2>1 DEF FindName, FindDirectory
  <2>2. CASE /\ Reply(c, "namespace", Nobody)
             /\ Holders("name", Want[c]) \cup Holders("directory", Want[c]) # {}
    <3>1. PICK i \in Ids : /\ table[i].status = "live"
                           /\ \/ table[i].identity["name"] = Want[c]["name"]
                              \/ table[i].identity["directory"] = Want[c]["directory"]
      BY <2>2 DEF Holders
    <3>2. owns[i] # Nobody /\ Names!SamePlace(owns[i], Want[c])
      BY <3>1, OwnsFacts DEF Names!SamePlace
    <3>3. Names!Namespace(c)
      BY <1>2, <1>3, <1>5, <2>2, <3>2
      DEF Names!Namespace, FindName, FindDirectory
    <3> QED BY <3>3 DEF Names!Next
  <2>3. CASE Reply(c, "invalid", Nobody)
    BY <1>2, <1>3, <1>5, <2>3 DEF Names!Invalid, Names!Next, FindName, FindDirectory
  <2>4. CASE Reply(c, "error", Nobody)
    BY <1>2, <1>3, <1>5, <2>4 DEF Names!Error, Names!Next, FindName, FindDirectory
  <2> QED BY <1>5, <2>1, <2>2, <2>3, <2>4 DEF FindName, FindDirectory, Goto
<1>6. CASE CheckForm(c)
  <2>1. CASE UNCHANGED answer
    BY <1>3, <1>6, <2>1 DEF CheckForm
  <2>2. CASE Reply(c, "invalid", Nobody)
    BY <1>2, <1>3, <1>6, <2>2 DEF Names!Invalid, Names!Next, CheckForm
  <2> QED BY <1>6, <2>1, <2>2 DEF CheckForm, Goto, LookAgain
<1>7. CASE Save(c) \/ SaveInterrupted(c)
  <2>1. CASE UNCHANGED <<table, answer>>
    BY <1>3, <2>1
  <2>2. CASE /\ Clashes(Want[c]) = {}
             /\ Reply(c, "created", c) \/ Reply(c, "error", Nobody)
             /\ table' = [table EXCEPT ![c] = Source(Want[c], Nobody)]
    <3>1. owns' = [owns EXCEPT ![c] = Want[c]]
      BY <1>1, <2>2 DEF owns, Source, IInv, TypeOK
    <3>2. Names!Acquire(c, Want[c])
      BY <1>1, <2>2, <3>1, FreeFacts DEF Names!Acquire
    <3> QED BY <1>2, <2>2, <3>2 DEF Names!Created, Names!Error, Names!Next
  <2> QED BY <1>7, <2>1, <2>2 DEF Save, SaveInterrupted, LookAgain
<1> QED BY <1>4, <1>5, <1>6, <1>7 DEF Create

\* A step that only takes rows away releases at most one identity.
LEMMA ReleaseRefines ==
  ASSUME IInv, UNCHANGED answer, NEW v \in Ids,
         table' \in [Ids -> RowType],
         \A i \in Ids \ {v} : table'[i] = table[i],
         table'[v] = table[v] \/ table'[v].status # "live"
  PROVE  [Names!Next]_(Names!namesVars)
<1>1. owns' = owns \/ owns' = [owns EXCEPT ![v] = Nobody]
  BY DEF owns
<1> QED BY <1>1 DEF Names!Next, Names!Release, Names!namesVars

\* Every step is one step of SourceNames, or none.
LEMMA NextRefines == IInv /\ [Next]_vars => [Names!Next]_(Names!namesVars)
<1> SUFFICES ASSUME IInv, [Next]_vars PROVE [Names!Next]_(Names!namesVars)
  OBVIOUS
<1>1. ASSUME NEW c \in Creators, Create(c) \/ SaveInterrupted(c)
      PROVE  [Names!Next]_(Names!namesVars)
  BY <1>1, CreateRefines
<1>2. ASSUME UNCHANGED <<table, answer>> PROVE [Names!Next]_(Names!namesVars)
  BY <1>2 DEF owns, Names!namesVars
<1>3. ASSUME NEW v \in Ids, table' = [table EXCEPT ![v] = NoSource], UNCHANGED answer
      PROVE  [Names!Next]_(Names!namesVars)
  <2>1. /\ table' \in [Ids -> RowType]
        /\ \A i \in Ids \ {v} : table'[i] = table[i]
        /\ table'[v].status # "live"
    BY <1>3, RowFacts DEF IInv, TypeOK
  <2> QED BY <1>3, <2>1, ReleaseRefines
<1>4. ASSUME NEW d \in Deleters, Rename(d) PROVE [Names!Next]_(Names!namesVars)
  <2>1. victim[d] \in Ids /\ UNCHANGED answer
    BY <1>4 DEF Rename, IInv, Inserting, createVars
  <2>2. CASE UNCHANGED table
    BY <1>2, <2>1, <2>2
  <2>3. CASE table' = [table EXCEPT ![victim[d]].status = "deleted"]
    <3>1. /\ table' \in [Ids -> RowType]
          /\ \A i \in Ids \ {victim[d]} : table'[i] = table[i]
          /\ table'[victim[d]].status # "live"
      BY <2>1, <2>3 DEF IInv, TypeOK, RowType
    <3> QED BY <2>1, <3>1, ReleaseRefines
  <2> QED BY <1>4, <2>2, <2>3 DEF Rename
<1>5. ASSUME NEW d \in Deleters, Replace(d) PROVE [Names!Next]_(Names!namesVars)
  <2>1. /\ UNCHANGED answer /\ d \in Ids \ Creators
        /\ table[d].status = "absent" /\ owns[d] = Nobody
    BY <1>5, SourceAssumption DEF Replace, IInv, Inserting, createVars, Ids, owns
  <2>2. PICK c \in Creators : read[d] = Want[c]
    BY <1>5 DEF Replace, IInv, Inserting
  <2>3. CASE UNCHANGED table
    BY <1>2, <2>1, <2>3
  <2>4. CASE /\ Clashes(Want[c]) = {}
             /\ table' = [table EXCEPT ![d] = Source(Want[c], victim[d])]
    <3>1. owns' = [owns EXCEPT ![d] = Want[c]]
      BY <2>1, <2>4 DEF owns, Source, IInv, TypeOK
    <3>2. Names!Acquire(d, Want[c])
      BY <2>1, <2>4, <3>1, FreeFacts DEF Names!Acquire
    <3> QED BY <2>1, <3>2 DEF Names!Next
  <2> QED BY <1>5, <2>2, <2>3, <2>4 DEF Replace
<1>6. ASSUME NEW d \in Deleters,
             Open(d) \/ Refresh(d) \/ Finish(d) \/ DeleterDies(d) \/ FinishInterrupted(d)
      PROVE  [Names!Next]_(Names!namesVars)
  <2>1. UNCHANGED answer
    BY <1>6 DEF Open, Refresh, Finish, DeleterDies, FinishInterrupted, createVars
  <2>2. \/ UNCHANGED table
        \/ victim[d] \in Ids /\ table' = [table EXCEPT ![victim[d]] = NoSource]
    BY <1>6 DEF Open, Refresh, Finish, DeleterDies, FinishInterrupted, Delete,
       IInv, Inserting
  <2> QED BY <1>2, <1>3, <2>1, <2>2
<1>7. ASSUME NEW i \in Ids, Background(i) \/ CleanupFails(i)
      PROVE  [Names!Next]_(Names!namesVars)
  <2>1. UNCHANGED answer
    BY <1>7 DEF Background, Sweep, RunCleanup, CleanupFails, createVars
  <2>2. UNCHANGED table \/ table' = [table EXCEPT ![i] = NoSource]
    BY <1>7 DEF Background, Sweep, RunCleanup, CleanupFails, Delete
  <2> QED BY <1>2, <1>3, <2>1, <2>2
<1>8. CASE UNCHANGED vars
  BY <1>2, <1>8 DEF vars, createVars
<1> QED BY <1>1, <1>4, <1>5, <1>6, <1>7, <1>8 DEF Next, Fault, DeleteView

----------------------------------------------------------------------------
(* Races between requests *)

\* Unless something is removed, a live row stays as it is, and nothing that
\* happened is undone.
LEMMA RowsStay ==
  ASSUME IInv, [Next]_vars
  PROVE  /\ removals => removals'
         /\ faults \in Nat /\ faults' \in Nat /\ faults <= faults'
         /\ removals' \/ \A i \in Ids : table[i].status = "live" => table'[i] = table[i]
<1> DEFINE Stays == removals' \/ \A i \in Ids : table[i].status = "live" => table'[i] = table[i]
           Keeps == /\ removals => removals'
                    /\ faults' \in {faults, faults + 1}
<1>1. ASSUME NEW c \in Creators, Create(c) \/ SaveInterrupted(c) PROVE Stays /\ Keeps
  <2>1. UNCHANGED removals /\ pc[c] # "done" /\ faults' \in {faults, faults + 1}
    BY <1>1 DEF Create, FindKey, FindName, FindDirectory, CheckForm, Save, SaveInterrupted
  <2>2. table[c].status = "absent"
    BY <2>1 DEF IInv, Inserting
  <2>3. table' = table \/ table' = [table EXCEPT ![c] = Source(Want[c], Nobody)]
    BY <1>1 DEF Create, FindKey, FindName, FindDirectory, CheckForm, Save, SaveInterrupted
  <2> QED BY <2>1, <2>2, <2>3 DEF IInv, TypeOK
<1>2. ASSUME NEW d \in Deleters, Replace(d) PROVE Stays /\ Keeps
  <2>1. table[d].status = "absent" /\ UNCHANGED <<removals, faults>>
    BY <1>2 DEF Replace, IInv, Inserting
  <2>2. table' = table \/ table' = [table EXCEPT ![d] = Source(read[d], victim[d])]
    BY <1>2 DEF Replace
  <2> QED BY <2>1, <2>2 DEF IInv, TypeOK
<1>3. ASSUME NEW d \in Deleters,
             \/ Open(d) \/ Rename(d) \/ Refresh(d) \/ Finish(d)
             \/ DeleterDies(d) \/ FinishInterrupted(d)
      PROVE  Stays /\ Keeps
  BY <1>3 DEF Open, Rename, Refresh, Finish, DeleterDies, FinishInterrupted, Delete
<1>4. ASSUME NEW i \in Ids, Background(i) \/ CleanupFails(i) PROVE Stays /\ Keeps
  BY <1>4 DEF Background, Sweep, RunCleanup, CleanupFails, Delete
<1>5. ASSUME UNCHANGED vars PROVE Stays /\ Keeps
  BY <1>5 DEF vars
<1>6. Stays /\ Keeps
  BY <1>1, <1>2, <1>3, <1>4, <1>5 DEF Next, Fault, DeleteView
<1>7. faults \in Nat /\ faults' \in Nat /\ faults <= faults'
  <2>1. faults \in Nat
    BY DEF IInv, TypeOK
  <2>2. faults' = faults \/ faults' = faults + 1
    BY <1>6
  <2> QED BY <2>1, <2>2
<1> QED BY <1>6, <1>7, Zenon

\* So whoever holds a name keeps it.
LEMMA HoldersStay ==
  ASSUME IInv, [Next]_vars, ~removals', NEW f, NEW c \in Creators
  PROVE  Holders(f, Want[c]) \subseteq Holders(f, Want[c])'
BY RowsStay DEF Holders

\* A step that is not the request's own leaves it a rival and its answer.
LEMMA OthersStep ==
  ASSUME IInv, [Next]_vars, NEW c \in Creators,
         RaisesWithCause(c) /\ SentBack(c) /\ Told(c),
         pc'[c] = pc[c], origin'[c] = origin[c], answer'[c] = answer[c]
  PROVE  RaisesWithCause(c)' /\ SentBack(c)' /\ Told(c)'
<1>1. /\ removals => removals'
      /\ faults > 0 => faults' > 0
  BY RowsStay
<1>2. RaisesWithCause(c)'
  BY <1>1 DEF RaisesWithCause
<1>3. Told(c)'
  BY <1>1, HoldersStay DEF Told
<1>4. SentBack(c)'
  <2> SUFFICES ASSUME origin[c] # "request", pc[c] # "done"
               PROVE  SentBack(c)'
    BY DEF SentBack
  <2>1. ~removals' /\ Rivals(c) # {} => Rivals(c)' # {}
    BY HoldersStay DEF Rivals
  <2> QED BY <1>1, <2>1 DEF SentBack
<1> QED BY <1>2, <1>3, <1>4

\* A request's own step: it answers truly, or has a rival still ahead of it.
LEMMA OwnStep ==
  ASSUME IInv, [Next]_vars, NEW c \in Creators, Create(c) \/ SaveInterrupted(c),
         SentBack(c)
  PROVE  RaisesWithCause(c)' /\ SentBack(c)' /\ Told(c)'
<1>1. /\ pc \in [Creators -> {"key", "name", "directory", "form", "save", "done"}]
      /\ origin \in [Creators -> {"request", "form", "save"}]
      /\ answer \in [Creators -> AnswerType]
      /\ table \in [Ids -> RowType]
  BY DEF IInv, TypeOK
<1>2. answer[c] = Unanswered
  BY DEF Create, FindKey, FindName, FindDirectory, CheckForm, Save, SaveInterrupted,
     IInv, Inserting
<1>3. c \in Ids
  BY DEF Ids
\* How each way to end a step settles the three claims.
<1>4. ASSUME NEW kind \in {"conflict", "namespace", "invalid", "error"},
             NEW uuid \in Ids \cup {Nobody}, Reply(c, kind, uuid),
             kind \in {"error", "invalid"} =>
               \/ removals' \/ faults' > 0
               \/ kind = "invalid" /\ c \in Unfit \cup Outside,
             uuid # Nobody => removals' \/ uuid \in Holders("key", Want[c])'
      PROVE  RaisesWithCause(c)' /\ SentBack(c)' /\ Told(c)'
  <2>1. answer'[c].kind = kind /\ answer'[c].uuid = uuid /\ pc'[c] = "done"
    BY <1>1, <1>4 DEF Reply, Answer
  <2> QED BY <1>4, <2>1 DEF RaisesWithCause, SentBack, Told
<1>5. ASSUME answer' = answer, SentBack(c)'
      PROVE  RaisesWithCause(c)' /\ SentBack(c)' /\ Told(c)'
  BY <1>2, <1>5 DEF RaisesWithCause, Told, Unanswered
<1>6. CASE FindKey(c)
  <2>1. UNCHANGED <<table, removals, faults>> /\ pc[c] = "key"
    BY <1>6 DEF FindKey
  <2>2. ASSUME NEW i \in Holders("key", Want[c]), Reply(c, "conflict", i)
        PROVE  RaisesWithCause(c)' /\ SentBack(c)' /\ Told(c)'
    <3>1. i \in Ids /\ i \in Holders("key", Want[c])'
      BY <2>1 DEF Holders
    <3> QED BY <1>4, <2>2, <3>1
  <2>3. CASE Holders("key", Want[c]) = {} /\ Goto(c, "name")
    <3>1. pc'[c] = "name" /\ origin' = origin /\ answer' = answer
      BY <1>1, <2>3 DEF Goto
    <3>2. /\ Rivals(c) \subseteq Holders("name", Want[c]) \cup Holders("directory", Want[c])
          /\ Rivals(c)' = Holders("name", Want[c]) \cup Holders("directory", Want[c])
      BY <2>1, <2>3, <3>1 DEF Rivals, Holders, Fields
    <3>3. SentBack(c)'
      BY <2>1, <3>1, <3>2 DEF SentBack
    <3> QED BY <1>5, <3>1, <3>3
  <2> QED BY <1>6, <2>2, <2>3 DEF FindKey
<1>7. CASE FindName(c)
  <2>1. UNCHANGED <<table, removals, faults>> /\ pc[c] = "name"
    BY <1>7 DEF FindName
  <2>2. CASE Reply(c, "namespace", Nobody)
    BY <1>4, <2>2
  <2>3. CASE Holders("name", Want[c]) = {} /\ Goto(c, "directory")
    <3>1. pc'[c] = "directory" /\ origin' = origin /\ answer' = answer
      BY <1>1, <2>3 DEF Goto
    <3>2. /\ Rivals(c) = Holders("directory", Want[c])
          /\ Rivals(c)' = Holders("directory", Want[c])
      BY <2>1, <2>3, <3>1 DEF Rivals, Holders
    <3>3. SentBack(c)'
      BY <2>1, <3>1, <3>2 DEF SentBack
    <3> QED BY <1>5, <3>1, <3>3
  <2> QED BY <1>7, <2>2, <2>3 DEF FindName
<1>8. CASE FindDirectory(c)
  <2>1. UNCHANGED <<table, removals, faults>> /\ pc[c] = "directory"
    BY <1>8 DEF FindDirectory
  <2>2. CASE Reply(c, "namespace", Nobody)
    BY <1>4, <2>2
  <2>3. CASE origin[c] = "request" /\ Goto(c, "form")
    <3>1. origin' = origin /\ answer' = answer
      BY <2>3 DEF Goto
    <3>2. SentBack(c)'
      BY <2>3, <3>1 DEF SentBack
    <3> QED BY <1>5, <3>1, <3>2
  <2>4. CASE /\ Holders("directory", Want[c]) = {}
             /\ \/ origin[c] = "form" /\ Reply(c, "invalid", Nobody)
                \/ origin[c] = "save" /\ Reply(c, "error", Nobody)
    <3>1. Rivals(c) = {}
      BY <2>1, <2>4 DEF Rivals
    <3>2. \/ removals' \/ faults' > 0
          \/ origin[c] = "form" /\ c \in Unfit
      BY <2>1, <2>4, <3>1 DEF SentBack
    <3> QED BY <1>4, <2>4, <3>2
  <2> QED BY <1>8, <2>2, <2>3, <2>4 DEF FindDirectory
<1>9. ASSUME NEW why \in {"form", "save"}, LookAgain(c, why),
             UNCHANGED <<table, removals, faults>>,
             Clashes(Want[c]) # {} \/ (why = "form" /\ c \in Unfit)
      PROVE  RaisesWithCause(c)' /\ SentBack(c)' /\ Told(c)'
  <2>1. pc'[c] = "key" /\ origin'[c] = why /\ answer' = answer
    BY <1>1, <1>9 DEF LookAgain
  <2>2. Rivals(c)' = Clashes(Want[c])
    BY <1>9, <2>1 DEF Rivals, Clashes, Holders
  <2>3. SentBack(c)'
    BY <1>9, <2>1, <2>2 DEF SentBack
  <2> QED BY <1>5, <2>1, <2>3
<1>10. CASE CheckForm(c)
  <2>1. UNCHANGED <<table, removals, faults>> /\ pc[c] = "form"
    BY <1>10 DEF CheckForm
  <2>2. CASE LookAgain(c, "form") /\ (c \in Unfit \/ Clashes(Want[c]) # {})
    BY <1>9, <2>1, <2>2
  <2>3. CASE c \in Outside /\ Reply(c, "invalid", Nobody)
    BY <1>4, <2>3
  <2>4. CASE Goto(c, "save")
    <3>1. origin' = origin /\ answer' = answer
      BY <2>4 DEF Goto
    <3>2. origin[c] = "request"
      BY <2>1 DEF SentBack
    <3>3. SentBack(c)'
      BY <3>1, <3>2 DEF SentBack
    <3> QED BY <1>5, <3>1, <3>3
  <2> QED BY <1>10, <2>2, <2>3, <2>4 DEF CheckForm
<1>11. CASE Save(c)
  <2>1. CASE LookAgain(c, "save") /\ Clashes(Want[c]) # {} /\ UNCHANGED table
    BY <1>9, <1>11, <2>1 DEF Save
  <2>2. CASE /\ Reply(c, "created", c)
             /\ table' = [table EXCEPT ![c] = Source(Want[c], Nobody)]
    <3>1. answer'[c] = Answer("created", c) /\ pc'[c] = "done"
      BY <1>1, <2>2 DEF Reply
    <3>2. table'[c] = Source(Want[c], Nobody)
      BY <1>1, <1>3, <2>2
    <3>3. c \in Holders("key", Want[c])'
      BY <1>3, <3>2 DEF Holders, Source
    <3> QED BY <3>1, <3>3 DEF RaisesWithCause, SentBack, Told, Answer
  <2> QED BY <1>11, <2>1, <2>2 DEF Save
<1>12. CASE SaveInterrupted(c)
  <2>1. Reply(c, "error", Nobody) /\ faults' > 0
    BY <1>12 DEF SaveInterrupted, IInv, TypeOK
  <2> QED BY <1>4, <2>1
<1> QED BY <1>6, <1>7, <1>8, <1>10, <1>11, <1>12 DEF Create

\* Races end well whatever the requests, the deletions and the tasks do.
LEMMA RaceStep == IInv /\ RaceInv /\ [Next]_vars => RaceInv'
<1> SUFFICES ASSUME IInv, RaceInv, [Next]_vars, NEW c \in Creators
             PROVE  RaisesWithCause(c)' /\ SentBack(c)' /\ Told(c)'
  BY DEF RaceInv
<1>1. RaisesWithCause(c) /\ SentBack(c) /\ Told(c)
  BY DEF RaceInv
<1>2. CASE Create(c) \/ SaveInterrupted(c)
  BY <1>1, <1>2, OwnStep
<1>3. CASE pc'[c] = pc[c] /\ origin'[c] = origin[c] /\ answer'[c] = answer[c]
  BY <1>1, <1>3, OthersStep
<1>4. ASSUME NEW e \in Creators \ {c}, Create(e) \/ SaveInterrupted(e)
      PROVE  pc'[c] = pc[c] /\ origin'[c] = origin[c] /\ answer'[c] = answer[c]
  BY <1>4 DEF IInv, TypeOK, Create, FindKey, FindName, FindDirectory, CheckForm, Save,
     SaveInterrupted, Reply, Goto, LookAgain
<1>5. ASSUME \/ \E d \in Deleters : DeleteView(d) \/ DeleterDies(d) \/ FinishInterrupted(d)
             \/ \E i \in Ids : Background(i) \/ CleanupFails(i)
             \/ UNCHANGED vars
      PROVE  UNCHANGED <<pc, origin, answer>>
  BY <1>5 DEF DeleteView, Open, Rename, Refresh, Replace, Finish, DeleterDies,
     FinishInterrupted, Background, Sweep, RunCleanup, CleanupFails, vars, createVars
<1> QED BY <1>2, <1>3, <1>4, <1>5 DEF Next, Fault

----------------------------------------------------------------------------
(* What SourceNames promises *)

\* Taking a free identity, or giving one up, keeps the owners apart.
LEMMA OwnerSteps ==
  ASSUME Names!Exclusive, NEW i,
         \/ \E a : Names!Acquire(i, a)
         \/ Names!Release(i)
         \/ owns' = owns
  PROVE  Names!Exclusive'
<1>1. owns = [j \in Ids |-> owns[j]]
  BY DEF owns
<1>2. CASE \E a : Names!Acquire(i, a)
  <2>1. PICK a : Names!Acquire(i, a)
    BY <1>2
  <2>2. \A j \in Ids : owns'[j] = IF j = i THEN a ELSE owns[j]
    BY <1>1, <2>1 DEF Names!Acquire
  <2>3. \A j \in Ids :
          owns[j] # Nobody => ~Names!Clash(owns[j], a) /\ ~Names!Clash(a, owns[j])
    BY <2>1 DEF Names!Acquire, Names!Free, Names!Clash, Names!SameKey, Names!SamePlace
  <2> QED BY <2>2, <2>3 DEF Names!Exclusive
<1>3. CASE Names!Release(i)
  <2>1. \A j \in Ids : owns'[j] = IF j = i THEN Nobody ELSE owns[j]
    BY <1>1, <1>3 DEF Names!Release
  <2> QED BY <2>1 DEF Names!Exclusive
<1>4. CASE owns' = owns
  BY <1>4 DEF Names!Exclusive
<1> QED BY <1>2, <1>3, <1>4

\* Nobody owns anything at first, and every answer is one of these steps.
LEMMA NamesApart == Names!Spec => []Names!Exclusive
<1>1. Names!Init => Names!Exclusive
  BY DEF Names!Init, Names!Exclusive
<1>2. Names!Exclusive /\ [Names!Next]_(Names!namesVars) => Names!Exclusive'
  <2> SUFFICES ASSUME Names!Exclusive, [Names!Next]_(Names!namesVars)
               PROVE  Names!Exclusive'
    OBVIOUS
  <2>1. \E i : \/ \E a : Names!Acquire(i, a)
               \/ Names!Release(i)
               \/ owns' = owns
    BY DEF Names!Next, Names!Created, Names!Conflict, Names!Namespace,
           Names!Invalid, Names!Error, Names!namesVars
  <2> QED BY <2>1, OwnerSteps
<1> QED BY <1>1, <1>2, PTL DEF Names!Spec

----------------------------------------------------------------------------
(* The theorems *)

\* The inductive invariant holds in every reachable state.
THEOREM Invariance == Spec => []IInv
BY InitIInv, NextIInv, PTL DEF Spec

\* The handler's separate statements, the deletions between them and the
\* table's unique columns together act as SourceNames: each answer of
\* POST /sources is true when it is decided.
THEOREM Refinement == Spec => AnswersAreTrue
BY InitRefines, NextRefines, Invariance, PTL DEF Spec, AnswersAreTrue, Names!Spec

\* Where every answer is true, no two sources ever share a key, a name or a
\* directory: a property of the abstract specification alone.
THEOREM NamesExclusive == AnswersAreTrue => []OneOwner
BY NamesApart DEF AnswersAreTrue, OneOwner

\* No two live sources ever share a key, a name or a directory: SourceNames
\* keeps them apart, and the code implements it.
THEOREM Apart == Spec => []OneOwner
BY Refinement, NamesExclusive

\* Requests that race have answers they can trust, once and for all.
THEOREM RacesEndWell == Spec => []RaceInv
<1>1. Init => RaceInv
  BY DEF Init, RaceInv, RaisesWithCause, SentBack, Told, Unanswered
<1> QED BY <1>1, RaceStep, Invariance, PTL DEF Spec

\* A fit request that loses a race is told who won; it never ends in the bare
\* re-raise or a generic 400 unless a source was removed or a process failed.
THEOREM ErrorsHaveCause == Spec => []NoSpuriousError
<1>1. RaceInv => NoSpuriousError
  BY DEF RaceInv, NoSpuriousError
<1> QED BY <1>1, RacesEndWell, PTL

\* Every request for a key that is told a uuid is told the same one, as long
\* as no source is removed: both uuids hold the key, and one row can.
THEOREM Convergence == Spec => []Converge
<1>1. IInv /\ RaceInv /\ OneOwner => Converge
  <2> SUFFICES ASSUME IInv, RaceInv, OneOwner, ~removals,
                      NEW c \in Creators, NEW e \in Creators,
                      Want[c].key = Want[e].key,
                      answer[c].uuid # Nobody, answer[e].uuid # Nobody
               PROVE  answer[c].uuid = answer[e].uuid
    BY DEF Converge
  <2>1. /\ answer[c].uuid \in Holders("key", Want[c])
        /\ answer[e].uuid \in Holders("key", Want[e])
    BY DEF RaceInv, Told
  <2>2. ASSUME NEW i \in Ids, table[i].status = "live"
        PROVE  owns[i] # Nobody /\ owns[i] = table[i].identity
    BY <2>2, OwnsFacts
  <2>3. /\ answer[c].uuid \in Ids /\ owns[answer[c].uuid] # Nobody
        /\ answer[e].uuid \in Ids /\ owns[answer[e].uuid] # Nobody
        /\ owns[answer[c].uuid].key = Want[c].key
        /\ owns[answer[e].uuid].key = Want[e].key
    BY <2>1, <2>2 DEF Holders
  <2> QED BY <2>3 DEF OneOwner, Names!Exclusive, Names!Clash, Names!SameKey
<1> QED BY <1>1, Invariance, RacesEndWell, Apart, PTL

\* Every variable keeps its type.
THEOREM TypeCorrect == Spec => []TypeOK
<1>1. IInv => TypeOK
  BY DEF IInv
<1> QED BY <1>1, Invariance, PTL
=============================================================================
