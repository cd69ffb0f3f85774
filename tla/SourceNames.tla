---------------------------- MODULE SourceNames ----------------------------
(***************************************************************************)
(* What POST /sources promises: a source owns its key, its name and its    *)
(* directory alone, and every request gets, in one indivisible step, an    *)
(* answer that is true at that step.                                       *)
(***************************************************************************)
CONSTANTS
  Ids,       \* uuids of sources
  Creators,  \* requests to create a source
  Want,      \* [Creators -> identity]: the identity each request asks for
  Nobody     \* owns nothing / no uuid

VARIABLES
  owns,      \* [Ids -> identity or Nobody]
  answer     \* [Creators -> answer]

namesVars == <<owns, answer>>

Unanswered == [kind |-> "none", uuid |-> Nobody]
Answer(kind, uuid) == [kind |-> kind, uuid |-> uuid]

\* Two identities that cannot both be in the table.
SameKey(a, b) == a.key = b.key
SamePlace(a, b) == a.name = b.name \/ a.directory = b.directory
Clash(a, b) == SameKey(a, b) \/ SamePlace(a, b)

Free(a) == \A i \in Ids : owns[i] # Nobody => ~Clash(owns[i], a)

Init ==
  /\ owns = [i \in Ids |-> Nobody]
  /\ answer = [c \in Creators |-> Unanswered]

\* A source appears, or goes, without a request of ours being answered.
Acquire(i, a) ==
  /\ owns[i] = Nobody
  /\ Free(a)
  /\ owns' = [owns EXCEPT ![i] = a]

Release(i) == owns' = [owns EXCEPT ![i] = Nobody] /\ UNCHANGED answer

Tell(c, kind, uuid) ==
  /\ answer[c] = Unanswered
  /\ answer' = [answer EXCEPT ![c] = Answer(kind, uuid)]

Created(c) == Acquire(c, Want[c]) /\ Tell(c, "created", c)

\* 409: the uuid to adopt owns the key now.
Conflict(c, i) ==
  /\ owns[i] # Nobody
  /\ SameKey(owns[i], Want[c])
  /\ Tell(c, "conflict", i)
  /\ UNCHANGED owns

\* 400: somebody has the name or the directory now.
Namespace(c) ==
  /\ \E i \in Ids : owns[i] # Nobody /\ SamePlace(owns[i], Want[c])
  /\ Tell(c, "namespace", Nobody)
  /\ UNCHANGED owns

\* 400 for another reason: nothing is promised but that nothing happened.
Invalid(c) == Tell(c, "invalid", Nobody) /\ UNCHANGED owns

\* 500: the source may have been created or not.
Error(c) ==
  /\ Tell(c, "error", Nobody)
  /\ UNCHANGED owns \/ Acquire(c, Want[c])

Next ==
  \/ \E i \in Ids : Release(i)
  \/ \E i \in Ids \ Creators, c \in Creators :
       Acquire(i, Want[c]) /\ UNCHANGED answer
  \/ \E c \in Creators :
       \/ Created(c) \/ Namespace(c) \/ Invalid(c) \/ Error(c)
       \/ \E i \in Ids : Conflict(c, i)

Spec == Init /\ [][Next]_namesVars

\* No two sources share a key, a name or a directory.
Exclusive ==
  \A i, j \in Ids :
    owns[i] # Nobody /\ owns[j] # Nobody /\ Clash(owns[i], owns[j]) => i = j
=============================================================================
