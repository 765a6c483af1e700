------------------------- MODULE WalkServerProperties -------------------------
(***************************************************************************)
(* What the walk endpoints owe the phone that uploads a walk and the dog   *)
(* whose walk it is: nothing acknowledged is lost, nothing raw is kept,    *)
(* and what was once derived is what everybody is told.                    *)
(***************************************************************************)
EXTENDS WalkServer

Positions == {"free", "arrived", "append", "finish", "finalize", "read_facts", "answered"}

\* The rows and the private variables of the handlers have their types.
TypeOK ==
    /\ session \in [Walks -> Session \union {None}]
    /\ walk_fix \in [Walks -> SUBSET Stored]
    /\ facts \in [Walks -> Facts \union {None}]
    /\ rowLock \in [Walks -> Calls \union {None}]
    /\ call \in [Calls -> Requests \union {None}]
    /\ at \in [Calls -> Positions]
    /\ work \in [Calls -> Session \union Facts \union {None}]
    /\ acked \in [Walks -> SUBSET Fix]
    /\ told \subseteq [walk: Walks, facts: Facts]

\* A position whose upload was answered 200 is never lost: it is stored until
\* the walk is finished and is among those its facts were derived from, however
\* uploads and finishes of the walk raced (append_fixes, finish_session).
AckedFixesCount ==
    \A w \in Walks :
      acked[w] \subseteq (IF facts[w] = None THEN StoredFixes(w) ELSE facts[w].from)

\* Raw positions exist only until the walk is finished: once facts are stored
\* no late or repeated upload brings a position back, and a walk without facts
\* is still open (finalize purges in the commit that derives).
RawFixesGone ==
    \A w \in Walks : session[w] # None =>
      IF facts[w] = None THEN session[w].state = "open"
      ELSE session[w].state = "purged" /\ walk_fix[w] = {}

\* What a phone was told is stored ends in the facts of its walk and nowhere
\* else, whichever finish was first.
FixesEndInFacts == AckedFixesCount /\ RawFixesGone

\* The count of a session and the order of reception stay whole over repeated
\* and overlapping batches: the stored rows are numbered 0 .. fix_count - 1 and
\* no client_seq is stored twice (append_fixes).
ReceptionOrderIsDense ==
    \A w \in Walks : session[w] # None /\ facts[w] = None =>
      /\ {s.seq : s \in walk_fix[w]} = 0 .. (session[w].fix_count - 1)
      /\ \A s, t \in walk_fix[w] :
           s.seq = t.seq \/ s.fix.client_seq = t.fix.client_seq => s = t

\* Device and simulated positions never end up in one walk: not in its stored
\* rows, nor in what its facts were derived from (append_fixes).
OneOriginPerWalk ==
    \A w \in Walks :
      LET fixes == StoredFixes(w) \union (IF facts[w] = None THEN {} ELSE facts[w].from)
      IN  /\ \A f, g \in fixes : f.mock = g.mock
          /\ \A f \in fixes : session[w].origin = Origin(f.mock)

\* However batches repeat, overlap and contradict each other, what is stored of
\* a walk is one dense sequence of one origin.
StoredWalksAreCoherent == ReceptionOrderIsDense /\ OneOriginPerWalk

\* Everybody who ever finished a walk was told the same facts, and they are
\* the ones on record, whatever end each caller asked for (finish_session).
FinishAnswersAgree ==
    \A t \in told : facts[t.walk] = t.facts

\* The two reads of a GET may straddle a finish, but they never report a
\* walk as purged without the facts that purged it (read_session).
PurgedReadsHaveFacts ==
    \A c \in Calls :
      at[c] = "answered" /\ call[c].op = "read" /\ answer[c].status = 200 =>
        (answer[c].state = "purged" => answer[c].facts # None)

\* Finishes and reads tell one story: what a walk was derived into never depends
\* on who asks, and a purged walk is never told of without it.
AnswersAgree == FinishAnswersAgree /\ PurgedReadsHaveFacts
==============================================================================
