------------------------ MODULE SpatialDiaryProperties ------------------------
(* What the diary promises about its rows, across calls that overlap. *)
EXTENDS SpatialDiary

Statuses == {None, "200", "404", "409", "500"}

\* The tables hold rows of requests, a lock is held by a call that is writing,
\* and a call has a view only while it uses one.
TypeOK ==
    /\ db.offer \subseteq {OfferRow(r) : r \in {q \in Requests : q.op = "offer"}}
    /\ db.interaction \subseteq
          {InteractionRow(r) : r \in {q \in Requests : q.op = "interact"}}
    /\ \A a \in db.attestation : a.time \in Clock
    /\ db.journal \subseteq {JournalRow(r) : r \in {q \in Requests : q.op = "publish"}}
    /\ lock \in [Lockable -> Handlers \union {None}]
    /\ \A c \in Handlers :
          /\ call[c].at \in {"idle", "open", "wait", "write", "done"}
          /\ call[c].attempt \in 0..2
          /\ call[c].answer \in Statuses
          /\ call[c].at \notin {"wait", "write"} => call[c].view = EmptyDB
    /\ \A k \in Lockable : lock[k] # None =>
          call[lock[k]].at = "write" /\ LockOf(call[lock[k]].req) = k

\* A moment of a walk becomes at most one memory however many callers offer,
\* attest and pin it at once: one offer for it, one attestation of the offer,
\* one pin, and no pin where drift forbids it.
OneMemoryPerMoment ==
    /\ \A o, p \in db.offer : (o.walk = p.walk /\ o.source = p.source) => o = p
    /\ \A a, b \in db.attestation : (a.offer # None /\ a.offer = b.offer) => a = b
    /\ \A p, q \in db.pin : p.offer = q.offer => p = q
    /\ \A p \in db.pin : p.walk \notin NoPinWalks

\* An attestation that saves has exactly one pin, made with it, for the same
\* offer, and no other attestation has one; a pin's corrections are about it.
SavedMemoriesHavePins ==
    /\ \A a \in db.attestation : a.offer # None =>
          Cardinality({p \in db.pin : p.by = a.id /\ p.offer = a.offer})
              = (IF a.save THEN 1 ELSE 0)
    /\ \A p \in db.pin :
          \E a \in db.attestation : a.id = p.by /\ a.offer = p.offer /\ a.save
    /\ \A p, q \in db.pin : p.id = q.id => p = q

\* Corrections of a pin form one chain: a single head, each row superseded at
\* most once and by a row of the same pin that is not earlier, and never more
\* rows than the readers of the history accept.
CorrectionsFormAChain ==
    \A p \in db.pin :
        LET history == History(db, p.id) IN
        /\ Cardinality({a \in history : IsHead(db, p.id, a)}) = 1
        /\ Cardinality(history) <= MaxRevisions
        /\ \A a \in history : a.supersedes # None =>
              \E b \in history : b.id = a.supersedes /\ b.time <= a.time

\* A call that was told 200 finds its row stored, with the content it asked
\* for and under an id nothing else has.
AcknowledgedIsStored ==
    \A c \in Handlers : call[c].answer = "200" =>
        LET r == call[c].req IN
        /\ Same(db, r)
        /\ r.op \in {"attest", "correct"} =>
              Cardinality({a \in db.attestation : a.id = r.id}) = 1

\* A correction is retried once and that decides it: it never fails, it answers
\* 200 exactly when its row is stored, so of two that were the same both are
\* told so, and a rival of the one that won is refused.
RetryDecides ==
    \A c \in Handlers :
        /\ (call[c].at = "done" /\ call[c].req.op = "correct") => call[c].answer # "500"
        /\ (call[c].at = "done" /\ call[c].attempt = 2) =>
              call[c].answer = (IF Same(db, call[c].req) THEN "200" ELSE "409")

\* A published journal shows pins of its own walk only.
JournalsShowTheirWalk ==
    \A j \in db.journal : \A pin \in j.pins :
        \E p \in db.pin : p.id = pin /\ p.walk = j.walk

\* Moments, memories, their corrections and the journals that show them belong
\* together however their calls overlap.
MemoriesAreWhole ==
    /\ OneMemoryPerMoment
    /\ SavedMemoriesHavePins
    /\ CorrectionsFormAChain
    /\ JournalsShowTheirWalk

\* What a caller is told is what the tables show, at the first try and after a
\* retry.
AnswersAreTrue == AcknowledgedIsStored /\ RetryDecides

\* docs/decisions/2026-09-01-spatial-diary-episode-pin-v0.md:86: a dismissed
\* or expired offer has no attestation.
DismissedOffersUnattested ==
    \A o \in db.offer : ~(Closed(db, o.id) /\ Attested(db, o.id))
==============================================================================
