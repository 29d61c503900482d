----------------------- MODULE ResponderSessionsProofs -----------------------
(***************************************************************************)
(* Proofs about the keys of two peers, for every number of transactions    *)
(* and all graces that keep the memory of a transaction at least as long   *)
(* as its cached answer.                                                   *)
(*                                                                         *)
(* The answering end. A key may not come back once it is over (Ended).     *)
(* Three memories have to agree for that: the replay cache, the remembered *)
(* tokens and the timestamp floor. What is over is not pending, and as     *)
(* long as its answer can be served again the sessions know that it is     *)
(* over (EndedForGood), because they remember it at least as long          *)
(* (Remembered); without a cached answer the floor admits only what is     *)
(* newer (FreshIsNew).                                                     *)
(*                                                                         *)
(* Both ends. The initiator's transactions are in order (InOrder), and a   *)
(* key that it waits for and that has been answered, or that it has just   *)
(* installed, is held at the other end (Backed): an initiation is given up *)
(* before a key staged for it expires (TimeoutsAssumption).                *)
(***************************************************************************)
EXTENDS HandshakeSessions, TLAPS

-----------------------------------------------------------------------------
(* The inductive invariant.                                                *)

busy == answerer.pc # "idle"
admitted == answerer.pc = "admitted"

\* Tokens whose key must not come back: the newest, and an older one that the
\* peer has installed.
Ended == {t \in Tokens : t = newest \/ (t \in adopted /\ t <= newest)}

\* Nothing is newer than the timestamp floor; only what was answered is
\* adopted, and only what is adopted is proven.
Floored ==
    /\ newest <= floor
    /\ keys.active \in {None, newest}
    /\ \A t \in Tokens :
          \/ keys.pending[t] # Gone \/ cache[t] > 0 \/ t \in answered
          \/ busy /\ answerer.token = t
          => t <= floor
    /\ adopted \subseteq answered
    /\ proven \in adopted \cup {None}

\* What a cached answer led to is remembered as long as the answer is kept.
Remembered ==
    /\ \A t \in Tokens :
          /\ \/ t \in answered \/ t = newest \/ keys.pending[t] # Gone
             \/ busy /\ ~admitted /\ answerer.token = t
          /\ cache[t] > 0
          => keys.seen[t] >= cache[t]
    /\ admitted /\ answerer.replay /\ answerer.token \in answered \cup {newest}
       => keys.seen[answerer.token] > 0

\* An ended key is not pending, and as long as its answer can be served again
\* it is known to be over.
EndedForGood ==
    \A t \in Ended :
       /\ keys.pending[t] = Gone
       /\ cache[t] > 0 \/ (admitted /\ answerer.token = t /\ answerer.replay)
          => t \in keys.terminal

\* A fresh offer is the newest of all.
FreshIsNew ==
    admitted /\ ~answerer.replay =>
       /\ answerer.token = floor /\ newest < floor
       /\ keys.pending[floor] = Gone /\ floor \notin answered

\* After the peer was retired, only newer transactions are left.
NewAfterRetired ==
    keys.active = None =>
       \A t \in Tokens :
          \/ keys.pending[t] # Gone \/ cache[t] > 0
          \/ busy /\ answerer.token = t
          => t > newest

Inv ==
    /\ SessionTypeOK
    /\ Floored /\ Remembered /\ EndedForGood /\ FreshIsNew /\ NewAfterRetired

-----------------------------------------------------------------------------
(* What the operations on the sessions do.                                 *)

\* Nothing becomes active or pending, and nothing that is still remembered
\* is forgotten, or taken for unfinished again without being pending.
Quiet(s, r) ==
    /\ r \in Sessions
    /\ r.active = s.active
    /\ \A t \in Tokens :
          /\ r.pending[t] # Gone => s.pending[t] # Gone
          /\ s.seen[t] > 0 => r.seen[t] >= s.seen[t]
          /\ s.seen[t] > 0 /\ s.pending[t] = Gone /\ t \in s.terminal => t \in r.terminal

Promoted(s, r, t) ==
    /\ r \in Sessions
    /\ s.pending[t] # Gone
    /\ r.active = t
    /\ \A u \in Tokens :
          /\ r.pending[u] = Gone
          /\ s.seen[u] > 0 \/ u = t => r.seen[u] = ReplayGrace /\ u \in r.terminal

LEMMA GraceTypes ==
    /\ {PendingGrace, PreviousGrace, ReplayGrace, CacheTtl} \subseteq Nat \ {0}
    /\ CacheTtl <= ReplayGrace
    /\ Gone = -1 /\ None = 0
    /\ Tokens \subseteq Nat \ {0} /\ None \notin Tokens
  BY TokensAssumption, GracesAssumption DEF Gone, None

LEMMA NoSessionsTyped == NoSessions \in Sessions
  BY GraceTypes DEF NoSessions, Sessions

LEMMA SameIsQuiet == ASSUME NEW s \in Sessions PROVE Quiet(s, s)
  BY GraceTypes DEF Quiet, Sessions

LEMMA QuietIsTransitive ==
    ASSUME NEW s \in Sessions, NEW r \in Sessions, NEW q, Quiet(s, r), Quiet(r, q)
    PROVE  Quiet(s, q)
<1>1. q \in Sessions /\ q.active = s.active
  BY DEF Quiet
<1>2. ASSUME NEW t \in Tokens
      PROVE  /\ q.pending[t] # Gone => s.pending[t] # Gone
             /\ s.seen[t] > 0 => q.seen[t] >= s.seen[t]
             /\ s.seen[t] > 0 /\ s.pending[t] = Gone /\ t \in s.terminal => t \in q.terminal
  BY <1>1, GraceTypes DEF Quiet, Sessions
<1> QED BY <1>1, <1>2 DEF Quiet

LEMMA PruneIsQuiet ==
    ASSUME NEW s \in Sessions
    PROVE  /\ Quiet(s, prune_expired(s))
           /\ \A t \in Tokens : s.seen[t] > 0 => prune_expired(s).seen[t] = s.seen[t]
<1> DEFINE p == prune_expired(s)
<1>1. p \in Sessions
  <2> DEFINE pending == [t \in Tokens |-> IF s.pending[t] = 0 THEN Gone ELSE s.pending[t]]
             seen == [t \in Tokens |-> IF s.seen[t] = 0 THEN Gone ELSE s.seen[t]]
             previous == IF s.retained = 0 THEN None ELSE s.previous
             terminal == {t \in s.terminal : s.seen[t] # 0}
  <2>1. pending \in [Tokens -> Gone..PendingGrace]
    BY GraceTypes DEF Sessions
  <2>2. seen \in [Tokens -> Gone..ReplayGrace]
    BY GraceTypes DEF Sessions
  <2>3. previous \in Tokens \cup {None} /\ terminal \in SUBSET Tokens
    BY DEF Sessions
  <2>4. p = [s EXCEPT !.previous = previous, !.pending = pending,
                      !.seen = seen, !.terminal = terminal]
    BY DEF prune_expired
  <2> HIDE DEF p, pending, seen, previous, terminal
  <2> QED BY <2>1, <2>2, <2>3, <2>4 DEF Sessions
<1>2. /\ p.active = s.active
      /\ \A t \in Tokens :
            /\ p.pending[t] = IF s.pending[t] = 0 THEN Gone ELSE s.pending[t]
            /\ p.seen[t] = IF s.seen[t] = 0 THEN Gone ELSE s.seen[t]
            /\ t \in p.terminal <=> t \in s.terminal /\ s.seen[t] # 0
  BY DEF prune_expired, Sessions
<1> QED BY <1>1, <1>2, GraceTypes DEF Quiet, Sessions

LEMMA RefreshIsQuiet ==
    ASSUME NEW s \in Sessions, NEW t \in Tokens
    PROVE  Quiet(s, refreshed(s, t))
<1>1. CASE s.pending[t] = Gone
  BY <1>1, SameIsQuiet DEF refreshed
<1>2. CASE s.pending[t] # Gone
  <2>1. refreshed(s, t) \in Sessions
    BY <1>2, GraceTypes DEF refreshed, Sessions
  <2>2. /\ refreshed(s, t).active = s.active /\ refreshed(s, t).seen = s.seen
        /\ refreshed(s, t).terminal = s.terminal
        /\ \A u \in Tokens : refreshed(s, t).pending[u] # Gone => s.pending[u] # Gone
    BY <1>2 DEF refreshed, Sessions
  <2> QED BY <2>1, <2>2, GraceTypes DEF Quiet, Sessions
<1> QED BY <1>1, <1>2

LEMMA DiscardIsQuiet ==
    ASSUME NEW s \in Sessions, NEW t \in Tokens
    PROVE  Quiet(s, discarded(s, t))
<1>1. CASE s = NoSessions \/ s.active = t
  BY <1>1, SameIsQuiet DEF discarded
<1>2. CASE ~(s = NoSessions \/ s.active = t)
  <2> DEFINE r == discarded(s, t)
  <2>1. r \in Sessions
    <3> DEFINE pending == [s.pending EXCEPT ![t] = Gone]
               seen == [s.seen EXCEPT ![t] = ReplayGrace]
               terminal == s.terminal \cup {t}
    <3>1. /\ pending \in [Tokens -> Gone..PendingGrace]
          /\ seen \in [Tokens -> Gone..ReplayGrace]
          /\ terminal \in SUBSET Tokens
      BY GraceTypes DEF Sessions
    <3>2. r = [[s EXCEPT !.pending = pending] EXCEPT !.seen = seen, !.terminal = terminal]
      BY <1>2 DEF discarded, remember_terminal, Sessions
    <3> HIDE DEF r, pending, seen, terminal
    <3> QED BY <3>1, <3>2 DEF Sessions
  <2>2. /\ r.active = s.active
        /\ \A u \in Tokens :
              /\ r.pending[u] = IF u = t THEN Gone ELSE s.pending[u]
              /\ r.seen[u] = IF u = t THEN ReplayGrace ELSE s.seen[u]
              /\ u \in s.terminal => u \in r.terminal
    BY <1>2 DEF discarded, remember_terminal, Sessions
  <2> QED BY <2>1, <2>2, GraceTypes DEF Quiet, Sessions
<1> QED BY <1>1, <1>2

LEMMA PromotePromotes ==
    ASSUME NEW s \in Sessions, NEW t \in Tokens, s.pending[t] # Gone
    PROVE  Promoted(s, promote_pending(s, t), t)
<1> DEFINE known == {u \in Tokens : s.seen[u] # Gone \/ s.pending[u] # Gone} \cup {t}
           pending == [u \in Tokens |-> Gone]
           seen == [u \in Tokens |-> IF u \in known THEN ReplayGrace ELSE Gone]
           previous == IF s.active = None THEN s.previous ELSE s.active
           retained == IF s.active = None THEN s.retained ELSE PreviousGrace
           r == promote_pending(s, t)
<1>1. /\ pending \in [Tokens -> Gone..PendingGrace]
      /\ seen \in [Tokens -> Gone..ReplayGrace]
      /\ known \in SUBSET Tokens
  BY GraceTypes
<1>2. previous \in Tokens \cup {None} /\ retained \in 0..PreviousGrace
  BY GraceTypes DEF Sessions
<1>3. r = [active |-> t, previous |-> previous, retained |-> retained,
           pending |-> pending, seen |-> seen, terminal |-> known]
  BY DEF promote_pending
<1>4. \A u \in Tokens :
         /\ pending[u] = Gone
         /\ s.seen[u] > 0 \/ u = t => seen[u] = ReplayGrace /\ u \in known
  BY GraceTypes DEF Sessions
<1> HIDE DEF r, pending, seen, previous, retained, known
<1>5. r \in Sessions
  BY <1>1, <1>2, <1>3 DEF Sessions
<1> QED BY <1>3, <1>4, <1>5 DEF Promoted, r

LEMMA PromoteAfterPrune ==
    ASSUME NEW s \in Sessions, NEW t \in Tokens, prune_expired(s).pending[t] # Gone
    PROVE  Promoted(s, promote_pending(prune_expired(s), t), t)
<1>1. Promoted(prune_expired(s), promote_pending(prune_expired(s), t), t)
  BY PromotePromotes, PruneIsQuiet DEF Quiet
<1> QED BY <1>1, PruneIsQuiet DEF Promoted, Quiet

\* A staged key is pending and remembered; everything else is as quiet.
Staged(s, r, t) ==
    /\ r \in Sessions
    /\ r.active = s.active
    /\ r.seen[t] = ReplayGrace
    /\ \A u \in Tokens \ {t} :
          /\ r.pending[u] # Gone => s.pending[u] # Gone
          /\ s.seen[u] > 0 => r.seen[u] >= s.seen[u]
          /\ s.seen[u] > 0 /\ s.pending[u] = Gone /\ u \in s.terminal => u \in r.terminal

LEMMA StageStages ==
    ASSUME NEW s \in Sessions, NEW t \in Tokens
    PROVE  Staged(s, staged(prune_expired(s), t), t)
<1> DEFINE p == prune_expired(s)
           pending == [p.pending EXCEPT ![t] = PendingGrace]
           seen == [p.seen EXCEPT ![t] = ReplayGrace]
           terminal == p.terminal \ {t}
           r == staged(p, t)
<1>1. p \in Sessions /\ Quiet(s, p)
  BY PruneIsQuiet DEF Quiet
<1> HIDE DEF p
<1>2. /\ pending \in [Tokens -> Gone..PendingGrace]
      /\ seen \in [Tokens -> Gone..ReplayGrace]
      /\ terminal \in SUBSET Tokens
  BY <1>1, GraceTypes DEF Sessions
<1>3. r = [p EXCEPT !.pending = pending, !.seen = seen, !.terminal = terminal]
  BY <1>1 DEF staged, Sessions
<1>4. /\ seen[t] = ReplayGrace
      /\ \A u \in Tokens \ {t} :
            /\ pending[u] = p.pending[u] /\ seen[u] = p.seen[u]
            /\ u \in p.terminal => u \in terminal
  BY <1>1 DEF Sessions
<1> HIDE DEF r, pending, seen, terminal
<1>5. r \in Sessions
  BY <1>1, <1>2, <1>3 DEF Sessions
<1>6. r.active = p.active /\ r.pending = pending /\ r.seen = seen /\ r.terminal = terminal
  BY <1>1, <1>3 DEF Sessions
<1> QED BY <1>1, <1>4, <1>5, <1>6 DEF Staged, Quiet, r, p

LEMMA StageAndDiscard ==
    ASSUME NEW s \in Sessions, NEW t \in Tokens
    PROVE  Staged(s, discarded(staged(prune_expired(s), t), t), t)
<1> DEFINE r == staged(prune_expired(s), t)
           q == discarded(r, t)
<1>1. Staged(s, r, t)
  BY StageStages
<1>2. r \in Sessions /\ Quiet(r, q)
  BY <1>1, DiscardIsQuiet DEF Staged
<1> HIDE DEF r, q
<1>3. q \in Sessions /\ q.active = s.active
  BY <1>1, <1>2 DEF Staged, Quiet
<1>4. q.seen[t] = ReplayGrace
  BY <1>1, <1>2, <1>3, GraceTypes DEF Staged, Quiet, Sessions
<1>5. ASSUME NEW u \in Tokens \ {t}
      PROVE  /\ q.pending[u] # Gone => s.pending[u] # Gone
             /\ s.seen[u] > 0 => q.seen[u] >= s.seen[u]
             /\ s.seen[u] > 0 /\ s.pending[u] = Gone /\ u \in s.terminal => u \in q.terminal
  BY <1>1, <1>2, <1>3, GraceTypes DEF Staged, Quiet, Sessions
<1> QED BY <1>3, <1>4, <1>5 DEF Staged, r, q

-----------------------------------------------------------------------------
(* What the steps have in common.                                          *)

published == busy /\ ~admitted

\* The worker gives up, or goes on with the same offer, whose key is admitted
\* to be staged, was staged, or is installed already.
WorkerGoesOn ==
    \/ answerer'.pc = "idle"
    \/ /\ busy /\ answerer'.pc # "idle"
       /\ answerer'.token = answerer.token /\ answerer'.replay = answerer.replay
       /\ \/ answerer'.pc = "admitted" <=> answerer.pc = "admitted"
          \/ /\ answerer'.pc # "admitted"
             /\ answerer.token = newest \/ keys.pending[answerer.token] # Gone

\* Answers are forgotten but not cached; only a staged key's answer goes out.
Onwards ==
    /\ SessionTypeOK'
    /\ WorkerGoesOn
    /\ floor' = floor /\ adopted' = adopted
    /\ proven' \in adopted \cup {None}
    /\ \A t \in Tokens : cache'[t] \in {0, cache[t]}
    /\ answered \subseteq answered'
    /\ \A t \in answered' : t \in answered \/ (published /\ t = answerer.token)

LEMMA Types ==
    ASSUME SessionTypeOK
    PROVE  /\ keys \in Sessions
           /\ \A t \in Tokens : /\ keys.pending[t] \in Int /\ keys.seen[t] \in Int
                                 /\ cache[t] \in Int /\ cache[t] >= 0 /\ cache[t] <= ReplayGrace
                                 /\ t \in Int /\ t > 0
           /\ floor \in Int /\ newest \in Int /\ floor >= 0 /\ newest >= 0
           /\ keys.active \in Int
           /\ floor \in Tokens \cup {None} /\ newest \in Tokens \cup {None}
<1>1. /\ keys \in Sessions /\ cache \in [Tokens -> 0..CacheTtl]
      /\ floor \in Tokens \cup {None} /\ newest \in Tokens \cup {None}
  BY DEF SessionTypeOK
<1>2. floor \in Int /\ newest \in Int /\ floor >= 0 /\ newest >= 0 /\ keys.active \in Int
  <2>1. \A t \in Tokens \cup {None} : t \in Int /\ t >= 0
    BY GraceTypes
  <2>2. keys.active \in Tokens \cup {None}
    BY <1>1 DEF Sessions
  <2> QED BY <1>1, <2>1, <2>2
<1>3. ASSUME NEW t \in Tokens
      PROVE  /\ keys.pending[t] \in Int /\ keys.seen[t] \in Int
             /\ cache[t] \in Int /\ cache[t] >= 0 /\ cache[t] <= ReplayGrace
             /\ t \in Int /\ t > 0
  <2>1. keys.pending \in [Tokens -> Gone..PendingGrace] /\ keys.seen \in [Tokens -> Gone..ReplayGrace]
    BY <1>1 DEF Sessions
  <2>2. keys.pending[t] \in Gone..PendingGrace /\ keys.seen[t] \in Gone..ReplayGrace
        /\ cache[t] \in 0..CacheTtl
    BY <1>1, <2>1
  <2> QED BY <2>2, GraceTypes
<1> QED BY <1>1, <1>2, <1>3

LEMMA QuietKeeps ==
    ASSUME Inv, Onwards, Quiet(keys, keys'), newest' = newest
    PROVE  Inv'
<1> USE DEF busy, admitted, published
<1>1. /\ SessionTypeOK /\ SessionTypeOK'
      /\ Floored /\ Remembered /\ EndedForGood /\ FreshIsNew /\ NewAfterRetired
  BY DEF Inv, Onwards
<1>2. \A t \in Tokens : cache'[t] > 0 => cache[t] > 0 /\ cache'[t] = cache[t]
  BY <1>1, Types DEF Onwards
<1>3. Floored'
  BY <1>1, <1>2, Types DEF Floored, Onwards, WorkerGoesOn, Quiet
<1>4. Remembered'
  <2>1. ASSUME NEW t \in Tokens, cache'[t] > 0,
               \/ t \in answered' \/ t = newest' \/ keys'.pending[t] # Gone
               \/ busy' /\ ~admitted' /\ answerer'.token = t
        PROVE  keys'.seen[t] >= cache'[t]
    <3>1. keys.seen[t] >= cache[t]
      BY <1>1, <1>2, <2>1 DEF Remembered, Onwards, WorkerGoesOn, Quiet
    <3> QED BY <1>1, <1>2, <2>1, <3>1, Types DEF Quiet, Sessions
  <2>2. ASSUME admitted', answerer'.replay, answerer'.token \in answered' \cup {newest'}
        PROVE  keys'.seen[answerer'.token] > 0
    <3>1. admitted /\ answerer.replay /\ answerer.token \in answered \cup {newest}
      BY <2>2 DEF Onwards, WorkerGoesOn
    <3>2. answerer.token \in Tokens /\ keys.seen[answerer.token] > 0
      BY <1>1, <3>1 DEF Remembered, SessionTypeOK
    <3> QED BY <1>1, <2>2, <3>2, Types DEF Quiet, Sessions, Onwards, WorkerGoesOn
  <2> QED BY <2>1, <2>2 DEF Remembered
<1>5. EndedForGood'
  <2> SUFFICES ASSUME NEW t \in Ended'
               PROVE  /\ keys'.pending[t] = Gone
                      /\ cache'[t] > 0 \/ (admitted' /\ answerer'.token = t /\ answerer'.replay)
                         => t \in keys'.terminal
    BY DEF EndedForGood
  <2>1. t \in Tokens /\ t \in Ended /\ keys.pending[t] = Gone
    BY <1>1 DEF Ended, EndedForGood, Onwards
  <2>2. keys'.pending[t] = Gone
    BY <2>1 DEF Quiet
  <2>3. ASSUME cache'[t] > 0 \/ (admitted' /\ answerer'.token = t /\ answerer'.replay)
        PROVE  t \in keys'.terminal
    <3>1. cache[t] > 0 \/ (admitted /\ answerer.token = t /\ answerer.replay)
      BY <1>2, <2>1, <2>3 DEF Onwards, WorkerGoesOn
    <3>2. t \in keys.terminal
      BY <1>1, <2>1, <3>1 DEF EndedForGood
    <3>3. t \in answered \cup {newest}
      BY <1>1, <2>1 DEF Ended, Floored
    <3>4. keys.seen[t] > 0
      BY <1>1, <2>1, <3>1, <3>3, Types DEF Remembered
    <3> QED BY <2>1, <3>2, <3>4 DEF Quiet
  <2> QED BY <2>2, <2>3
<1>6. FreshIsNew'
  BY <1>1, Types DEF FreshIsNew, Onwards, WorkerGoesOn, Quiet, SessionTypeOK
<1>7. NewAfterRetired'
  BY <1>1, <1>2 DEF NewAfterRetired, Onwards, WorkerGoesOn, Quiet
<1> QED BY <1>1, <1>3, <1>4, <1>5, <1>6, <1>7 DEF Inv

\* A key that is promoted is newer than all before it, and all that is
\* remembered is over with it.
LEMMA PromotionKeeps ==
    ASSUME Inv, Onwards, NEW t \in Tokens, Promoted(keys, keys', t),
           t > newest, newest' = t
    PROVE  Inv'
<1> USE DEF busy, admitted, published
<1>1. /\ SessionTypeOK /\ SessionTypeOK'
      /\ Floored /\ Remembered /\ EndedForGood /\ FreshIsNew /\ NewAfterRetired
  BY DEF Inv, Onwards
<1>2. \A u \in Tokens : cache'[u] > 0 => cache[u] > 0 /\ cache'[u] = cache[u]
  BY <1>1, Types DEF Onwards
<1>3. t <= floor /\ keys'.active = t /\ \A u \in Tokens : keys'.pending[u] = Gone
  BY <1>1 DEF Floored, Promoted
<1>4. Floored'
  BY <1>1, <1>2, <1>3, Types DEF Floored, Onwards, WorkerGoesOn
<1>5. ASSUME NEW u \in Tokens, u = t \/ keys.seen[u] > 0
      PROVE  keys'.seen[u] = ReplayGrace /\ u \in keys'.terminal
  BY <1>5 DEF Promoted
<1>6. ASSUME NEW u \in Tokens, cache'[u] > 0,
             \/ u \in answered' \/ u = newest'
             \/ busy' /\ ~admitted' /\ answerer'.token = u
      PROVE  u = t \/ keys.seen[u] > 0
  BY <1>1, <1>2, <1>6, Types DEF Remembered, Onwards, WorkerGoesOn
<1>7. ASSUME admitted', answerer'.replay, answerer'.token \in answered' \cup {newest'}
      PROVE  answerer'.token \in Tokens /\ (answerer'.token = t \/ keys.seen[answerer'.token] > 0)
  BY <1>1, <1>7 DEF Remembered, Onwards, WorkerGoesOn, SessionTypeOK
<1>8. Remembered'
  <2>1. ASSUME NEW u \in Tokens, cache'[u] > 0,
               \/ u \in answered' \/ u = newest' \/ keys'.pending[u] # Gone
               \/ busy' /\ ~admitted' /\ answerer'.token = u
        PROVE  keys'.seen[u] >= cache'[u]
    BY <1>1, <1>2, <1>3, <1>5, <1>6, <2>1, Types, GraceTypes
  <2>2. ASSUME admitted', answerer'.replay, answerer'.token \in answered' \cup {newest'}
        PROVE  keys'.seen[answerer'.token] > 0
    BY <1>5, <1>7, <2>2, GraceTypes
  <2> QED BY <2>1, <2>2 DEF Remembered
<1>9. EndedForGood'
  <2> SUFFICES ASSUME NEW u \in Ended',
                      cache'[u] > 0 \/ (admitted' /\ answerer'.token = u /\ answerer'.replay)
               PROVE  u \in keys'.terminal
    BY <1>3 DEF EndedForGood, Ended
  <2>1. u \in Tokens /\ (u \in answered' \/ u = newest')
    BY <1>1 DEF Ended, Floored, Onwards
  <2>2. u = t \/ keys.seen[u] > 0
    BY <1>6, <1>7, <2>1
  <2> QED BY <1>5, <2>1, <2>2
<1>10. FreshIsNew'
  <2>1. ASSUME admitted, ~answerer.replay PROVE t < floor
    BY <1>1, <1>3, <2>1, Types DEF FreshIsNew, Promoted
  <2>2. floor \in Tokens
    BY <1>1, <1>3, Types, GraceTypes
  <2> QED BY <1>1, <1>3, <2>1, <2>2 DEF FreshIsNew, Onwards, WorkerGoesOn
<1>11. NewAfterRetired'
  BY <1>3, GraceTypes DEF NewAfterRetired
<1> QED BY <1>1, <1>4, <1>8, <1>9, <1>10, <1>11 DEF Inv

\* A key that may be staged is newer than all that is over.
LEMMA StageableIsNew ==
    ASSUME Inv, admitted, stageable(prune_expired(keys), answerer.token, answerer.replay)
    PROVE  answerer.token \in Tokens /\ answerer.token \notin Ended
<1> DEFINE t == answerer.token
<1>1. t \in Tokens
  BY DEF Inv, SessionTypeOK, admitted
<1>2. ASSUME t \in Ended PROVE FALSE
  <2>1. t \in answered \cup {newest}
    BY <1>2 DEF Ended, Inv, Floored
  <2>2. answerer.replay
    BY <1>1, <1>2, <2>1, Types DEF Inv, FreshIsNew, Ended, Floored
  <2>3. keys.seen[t] > 0 /\ t \in keys.terminal
    BY <1>2, <2>1, <2>2 DEF Inv, Remembered, EndedForGood
  <2>4. keys \in Sessions /\ keys.pending[t] = Gone
    BY <1>2 DEF Inv, SessionTypeOK, EndedForGood
  <2>5. prune_expired(keys).seen[t] > 0 /\ t \in prune_expired(keys).terminal
    BY <1>1, <2>3, <2>4, PruneIsQuiet DEF Quiet
  <2> QED BY <2>5, GraceTypes DEF stageable
<1> QED BY <1>1, <1>2

LEMMA StagingKeeps ==
    ASSUME Inv, SessionTypeOK', admitted, answerer.token \notin Ended,
           Staged(keys, keys', answerer.token), newest' = newest,
           answerer'.pc = "idle" \/ (answerer'.pc = "staged" /\ answerer'.token = answerer.token),
           \A t \in Tokens : cache'[t] \in {0, cache[t]},
           proven' \in {proven, None},
           UNCHANGED <<floor, answered, adopted>>
    PROVE  Inv'
<1> USE DEF busy, admitted
<1> DEFINE t == answerer.token
<1>1. /\ SessionTypeOK /\ Floored /\ Remembered /\ EndedForGood /\ FreshIsNew /\ NewAfterRetired
  BY DEF Inv
<1>2. t \in Tokens /\ t <= floor /\ ~admitted' /\ Ended' = Ended
  BY <1>1 DEF SessionTypeOK, Floored, Ended
<1>3. \A u \in Tokens : cache'[u] > 0 => cache[u] > 0 /\ cache'[u] = cache[u]
  BY <1>1, Types
<1>4. Floored'
  BY <1>1, <1>2, <1>3 DEF Floored, Staged
<1>5. Remembered'
  <2>1. ASSUME NEW u \in Tokens, cache'[u] > 0,
               \/ u \in answered \/ u = newest \/ keys'.pending[u] # Gone \/ u = t
        PROVE  keys'.seen[u] >= cache'[u]
    <3>1. CASE u = t
      BY <1>1, <1>3, <2>1, <3>1, Types, GraceTypes DEF Staged
    <3>2. CASE u # t
      <4>1. keys.seen[u] >= cache[u] /\ keys.seen[u] > 0
        BY <1>1, <1>3, <2>1, <3>2, Types DEF Remembered, Staged
      <4>2. keys'.seen[u] >= keys.seen[u] /\ keys'.seen[u] \in Int
        BY <3>2, <4>1, Types, GraceTypes DEF Staged, Sessions
      <4> QED BY <1>1, <1>3, <2>1, <4>1, <4>2, Types
    <3> QED BY <3>1, <3>2
  <2> QED BY <1>2, <2>1 DEF Remembered
<1>6. EndedForGood'
  <2> SUFFICES ASSUME NEW u \in Ended
               PROVE  keys'.pending[u] = Gone /\ (cache'[u] > 0 => u \in keys'.terminal)
    BY <1>2 DEF EndedForGood
  <2>1. u \in Tokens \ {t} /\ keys.pending[u] = Gone /\ u \in answered \cup {newest}
    BY <1>1 DEF Ended, EndedForGood, Floored
  <2>2. ASSUME cache'[u] > 0 PROVE u \in keys'.terminal
    <3>1. u \in keys.terminal /\ keys.seen[u] >= cache[u] /\ cache[u] > 0
      BY <1>1, <1>3, <2>1, <2>2 DEF EndedForGood, Remembered
    <3> QED BY <1>1, <2>1, <3>1, Types DEF Staged
  <2> QED BY <2>1, <2>2 DEF Staged
<1>7. FreshIsNew'
  BY <1>2 DEF FreshIsNew
<1>8. NewAfterRetired'
  BY <1>1, <1>2, <1>3 DEF NewAfterRetired, Staged
<1> QED BY <1>1, <1>4, <1>5, <1>6, <1>7, <1>8 DEF Inv

-----------------------------------------------------------------------------
(* One lemma per action, or per kind of action.                            *)

NotBack == keys'.active \notin {keys.active, None} => keys'.active > newest

LEMMA QuietBecomes ==
    ASSUME Inv, NEW r, Quiet(keys, r), Becomes(r)
    PROVE  keys' \in Sessions /\ Quiet(keys, keys') /\ newest' = newest /\ NotBack
<1>1. keys' = r /\ keys'.active = keys.active
  BY DEF Becomes, Quiet
<1>2. ~(r.active > newest)
  BY <1>1, Types, GraceTypes DEF Inv, Floored
<1> QED BY <1>1, <1>2 DEF Becomes, Quiet, NotBack

LEMMA PromotedBecomes ==
    ASSUME Inv, NEW r, NEW t \in Tokens, Promoted(keys, r, t), Becomes(r),
           t \in adopted \/ keys.active = None
    PROVE  /\ keys' \in Sessions /\ Promoted(keys, keys', t)
           /\ t > newest /\ newest' = t /\ NotBack
<1>1. keys' = r /\ keys'.active = t /\ keys.pending[t] # Gone
  BY DEF Becomes, Promoted
<1>2. t > newest
  <2>1. CASE keys.active = None
    BY <1>1, <2>1 DEF Inv, NewAfterRetired
  <2>2. CASE t \in adopted
    <3>1. t \notin Ended
      BY <1>1 DEF Inv, EndedForGood
    <3> QED BY <2>2, <3>1, Types DEF Ended, Inv
  <2> QED BY <2>1, <2>2
<1> QED BY <1>1, <1>2 DEF Becomes, Promoted, NotBack

LEMMA AdmitsStep ==
    ASSUME Inv, NEW t \in Tokens, Admits(t)
    PROVE  Inv' /\ NotBack
<1> USE DEF busy, admitted
<1>1. /\ SessionTypeOK /\ Floored /\ Remembered /\ EndedForGood /\ FreshIsNew /\ NewAfterRetired
  BY DEF Inv
<1>2. /\ admitted' /\ answerer'.token = t /\ answerer'.replay = (cache[t] > 0) /\ ~busy
      /\ UNCHANGED <<keys, proven, answered, adopted, newest>>
  BY DEF Admits
<1>3. NotBack
  BY <1>2 DEF NotBack
<1>4. CASE cache[t] > 0 /\ UNCHANGED <<cache, floor>>
  <2>1. SessionTypeOK'
    BY <1>1, <1>4 DEF SessionTypeOK, Admits
  <2>2. Floored' /\ FreshIsNew'
    BY <1>1, <1>2, <1>4 DEF Floored, FreshIsNew
  <2>3. Remembered'
    <3>1. t \in answered \cup {newest} => keys.seen[t] > 0
      BY <1>1, <1>4, Types DEF Remembered
    <3> QED BY <1>1, <1>2, <1>4, <3>1 DEF Remembered
  <2>4. EndedForGood'
    BY <1>1, <1>2, <1>4 DEF EndedForGood, Ended
  <2>5. NewAfterRetired'
    BY <1>1, <1>2, <1>4 DEF NewAfterRetired
  <2> QED BY <1>3, <2>1, <2>2, <2>3, <2>4, <2>5 DEF Inv
<1>5. CASE cache[t] = 0 /\ t > floor /\ floor' = t /\ cache' = [cache EXCEPT ![t] = CacheTtl]
  <2>1. ~answerer'.replay /\ newest < t /\ newest <= floor
    <3>1. ~(cache[t] > 0)
      BY <1>5
    <3>2. ~answerer'.replay
      BY <1>2, <3>1, Zenon
    <3> QED BY <1>1, <1>5, <3>2, Types DEF Floored
  <2>2. keys.pending[t] = Gone /\ t \notin answered /\ t \notin adopted /\ t \notin Ended
    BY <1>1, <1>5, <2>1, Types DEF Floored, Ended
  <2>3. \A u \in Tokens : cache'[u] = IF u = t THEN CacheTtl ELSE cache[u]
    BY <1>1, <1>5 DEF SessionTypeOK
  <2>4. SessionTypeOK'
    <3>1. cache' \in [Tokens -> 0..CacheTtl]
      BY <1>1, <1>5, GraceTypes DEF SessionTypeOK
    <3> QED BY <1>1, <1>5, <3>1 DEF SessionTypeOK, Admits
  <2>5. Floored'
    <3>1. ASSUME NEW u \in Tokens,
                 keys.pending[u] # Gone \/ cache'[u] > 0 \/ u \in answered \/ u = t
          PROVE  u <= t
      <4>1. u = t \/ u <= floor
        BY <1>1, <2>3, <3>1 DEF Floored
      <4> QED BY <1>1, <1>5, <4>1, Types
    <3> QED BY <1>1, <1>2, <1>5, <2>1, <3>1, Types DEF Floored
  <2>6. Remembered'
    <3>1. ASSUME NEW u \in Tokens, cache'[u] > 0,
                 u \in answered \/ u = newest \/ keys.pending[u] # Gone
          PROVE  keys.seen[u] >= cache'[u]
      <4>1. u # t
        BY <1>1, <2>1, <2>2, <3>1, Types
      <4> QED BY <1>1, <2>3, <3>1, <4>1 DEF Remembered
    <3> QED BY <1>2, <2>1, <3>1 DEF Remembered
  <2>7. EndedForGood'
    BY <1>1, <1>2, <2>1, <2>2, <2>3 DEF EndedForGood, Ended
  <2>8. FreshIsNew'
    BY <1>2, <1>5, <2>1, <2>2 DEF FreshIsNew
  <2>9. NewAfterRetired'
    BY <1>1, <1>2, <2>1, <2>3 DEF NewAfterRetired
  <2> QED BY <1>3, <2>4, <2>5, <2>6, <2>7, <2>8, <2>9 DEF Inv
<1> QED BY <1>4, <1>5 DEF Admits

\* What a refused offer leaves of the cache.
LEMMA DropsAnswerTyped ==
    ASSUME SessionTypeOK, DropsAnswer
    PROVE  cache' \in [Tokens -> 0..CacheTtl] /\ \A t \in Tokens : cache'[t] \in {0, cache[t]}
<1>1. cache \in [Tokens -> 0..CacheTtl]
  BY DEF SessionTypeOK
<1>2. CASE answerer.replay
  BY <1>1, <1>2 DEF DropsAnswer
<1>3. CASE ~answerer.replay
  <2>1. cache' = [cache EXCEPT ![answerer.token] = 0] /\ 0 \in 0..CacheTtl
    BY <1>3, GraceTypes DEF DropsAnswer
  <2> QED BY <1>1, <2>1
<1> QED BY <1>2, <1>3

LEMMA TurnsStaleStep ==
    ASSUME Inv, TurnsStale
    PROVE  Inv' /\ NotBack
<1> USE DEF busy, admitted, published
<1>1. keys' = keys /\ newest' = newest /\ Quiet(keys, keys') /\ NotBack
  BY SameIsQuiet DEF TurnsStale, Inv, SessionTypeOK, NotBack
<1>2. cache' \in [Tokens -> 0..CacheTtl] /\ \A t \in Tokens : cache'[t] \in {0, cache[t]}
  BY DropsAnswerTyped DEF TurnsStale, Inv
<1>3. SessionTypeOK'
  BY <1>1, <1>2 DEF TurnsStale, NoWork, Inv, SessionTypeOK
<1>4. Onwards
  BY <1>2, <1>3 DEF TurnsStale, Onwards, WorkerGoesOn, NoWork, Inv, Floored
<1> QED BY <1>1, <1>4, QuietKeeps

LEMMA StagesStep ==
    ASSUME Inv, NEW binding \in Bindings, Stages(binding)
    PROVE  Inv' /\ NotBack
<1> USE DEF admitted
<1> DEFINE t == answerer.token
           one == staged(prune_expired(keys), t)
           two == discarded(one, t)
<1>1. SessionTypeOK /\ admitted /\ t \in Tokens /\ t \notin Ended
  BY StageableIsNew DEF Stages, Inv
<1>2. keys \in Sessions /\ Staged(keys, one, t) /\ Staged(keys, two, t)
  BY <1>1, StageStages, StageAndDiscard DEF SessionTypeOK
<1>3. Becomes(one) \/ Becomes(two)
  BY DEF Stages
<1>4. /\ answerer' = NoWork \/ answerer' = [answerer EXCEPT !.pc = "staged"]
      /\ UNCHANGED cache \/ DropsAnswer
  BY DEF Stages
<1>5. proven' \in {proven, None} /\ UNCHANGED <<floor, answered, adopted>>
  BY DEF Stages
<1> HIDE DEF one, two, t
<1>6. Staged(keys, keys', t) /\ keys' \in Sessions /\ newest' = newest /\ NotBack
  <2>1. Staged(keys, keys', t)
    BY <1>2, <1>3 DEF Becomes
  <2>2. keys'.active = keys.active /\ ~(keys'.active > newest)
    BY <2>1, <1>1, Types, GraceTypes DEF Staged, Inv, Floored
  <2> QED BY <1>3, <2>1, <2>2 DEF Staged, Becomes, NotBack
<1>7. cache' \in [Tokens -> 0..CacheTtl] /\ \A u \in Tokens : cache'[u] \in {0, cache[u]}
  BY <1>1, <1>4, DropsAnswerTyped DEF SessionTypeOK
<1>8. /\ answerer'.pc = "idle" \/ (answerer'.pc = "staged" /\ answerer'.token = answerer.token)
      /\ answerer' \in [pc : {"idle", "admitted", "staged", "accepted", "ambiguous"},
                      token : Tokens \cup {None}, replay : BOOLEAN, stale : BOOLEAN]
      /\ answerer'.pc = "idle" \/ answerer'.token \in Tokens
  <2>1. CASE answerer' = NoWork
    BY <2>1 DEF NoWork
  <2>2. CASE answerer' = [answerer EXCEPT !.pc = "staged"]
    BY <1>1, <2>2 DEF SessionTypeOK, t
  <2> QED BY <1>4, <2>1, <2>2
<1>9. SessionTypeOK'
  BY <1>1, <1>5, <1>6, <1>7, <1>8 DEF SessionTypeOK
<1> QED BY <1>1, <1>5, <1>6, <1>7, <1>8, <1>9, StagingKeeps DEF t

\* The types of a worker that is idle again or has come further.
LEMMA WorkerTyped ==
    ASSUME SessionTypeOK, NEW pc \in {"idle", "admitted", "staged", "accepted", "ambiguous"},
           answerer' = NoWork \/ (busy /\ answerer' = [answerer EXCEPT !.pc = pc])
    PROVE  /\ answerer' \in [pc : {"idle", "admitted", "staged", "accepted", "ambiguous"},
                           token : Tokens \cup {None}, replay : BOOLEAN, stale : BOOLEAN]
           /\ answerer'.pc = "idle" \/ answerer'.token \in Tokens
<1>1. CASE answerer' = NoWork
  BY <1>1 DEF NoWork
<1>2. CASE busy /\ answerer' = [answerer EXCEPT !.pc = pc]
  BY <1>2 DEF SessionTypeOK, busy
<1> QED BY <1>1, <1>2

LEMMA ServesAgainStep ==
    ASSUME Inv, NEW binding \in Bindings, ServesAgain(binding)
    PROVE  Inv' /\ NotBack
<1> USE DEF busy, admitted, published
<1> DEFINE t == answerer.token
           p == prune_expired(keys)
           r == IF p.active = t THEN p ELSE refreshed(p, t)
<1>1. SessionTypeOK /\ keys \in Sessions /\ t \in Tokens /\ busy
  BY DEF ServesAgain, Inv, SessionTypeOK
<1>2. p \in Sessions /\ Quiet(keys, p)
  BY <1>1, PruneIsQuiet DEF Quiet
<1>3. Quiet(keys, r)
  BY <1>1, <1>2, RefreshIsQuiet, QuietIsTransitive
<1>4. Becomes(r) /\ duplicate(p, t)
  BY DEF ServesAgain
<1>5. t = newest \/ keys.pending[t] # Gone
  BY <1>1, <1>2, <1>4, GraceTypes DEF duplicate, Quiet, Inv, Floored
<1>6. /\ answerer' = NoWork \/ answerer' = [answerer EXCEPT !.pc = "staged"]
      /\ UNCHANGED cache \/ DropsAnswer
      /\ UNCHANGED <<floor, proven, answered, adopted>>
  BY DEF ServesAgain
<1> HIDE DEF r
<1>7. keys' \in Sessions /\ Quiet(keys, keys') /\ newest' = newest /\ NotBack
  BY <1>3, <1>4, QuietBecomes
<1>8. cache' \in [Tokens -> 0..CacheTtl] /\ \A u \in Tokens : cache'[u] \in {0, cache[u]}
  BY <1>1, <1>6, DropsAnswerTyped DEF SessionTypeOK
<1>9. SessionTypeOK'
  BY <1>1, <1>6, <1>7, <1>8, WorkerTyped DEF SessionTypeOK
<1>10. WorkerGoesOn
  BY <1>1, <1>5, <1>6 DEF WorkerGoesOn, NoWork, SessionTypeOK
<1>11. Onwards
  BY <1>6, <1>8, <1>9, <1>10 DEF Onwards, Inv, Floored
<1> QED BY <1>7, <1>11, QuietKeeps

LEMMA RefusesOfferStep ==
    ASSUME Inv, RefusesOffer
    PROVE  Inv' /\ NotBack
<1>1. SessionTypeOK /\ keys \in Sessions
  BY DEF Inv, SessionTypeOK
<1>2. keys' \in Sessions /\ Quiet(keys, keys') /\ newest' = newest /\ NotBack
  BY <1>1, PruneIsQuiet, QuietBecomes DEF RefusesOffer
<1>3. cache' \in [Tokens -> 0..CacheTtl] /\ \A u \in Tokens : cache'[u] \in {0, cache[u]}
  BY <1>1, DropsAnswerTyped DEF RefusesOffer
<1>4. SessionTypeOK'
  BY <1>1, <1>2, <1>3 DEF SessionTypeOK, RefusesOffer, NoWork
<1>5. Onwards
  BY <1>3, <1>4 DEF Onwards, WorkerGoesOn, RefusesOffer, NoWork, Inv, Floored
<1> QED BY <1>2, <1>5, QuietKeeps

LEMMA StageTimesOutStep ==
    ASSUME Inv, StageTimesOut
    PROVE  Inv' /\ NotBack
<1>1. keys' = keys /\ newest' = newest /\ Quiet(keys, keys') /\ NotBack
  BY SameIsQuiet DEF StageTimesOut, Inv, SessionTypeOK, NotBack
<1>2. SessionTypeOK'
  BY DEF StageTimesOut, Inv, SessionTypeOK, NoWork
<1>3. Onwards
  BY <1>2 DEF Onwards, WorkerGoesOn, StageTimesOut, NoWork, Inv, Floored
<1> QED BY <1>1, <1>3, QuietKeeps

LEMMA PostsStep ==
    ASSUME Inv, NEW outcome \in {"accepted", "ambiguous"}, NEW out \in BOOLEAN,
           Posts(outcome, out)
    PROVE  Inv' /\ NotBack
<1> USE DEF busy, admitted, published
<1>1. keys' = keys /\ newest' = newest /\ Quiet(keys, keys') /\ NotBack
  BY SameIsQuiet DEF Posts, Inv, SessionTypeOK, NotBack
<1>2. /\ SessionTypeOK /\ answerer.pc = "staged" /\ answerer.token \in Tokens
      /\ answerer' = [answerer EXCEPT !.pc = outcome]
      /\ answered \subseteq answered' /\ answered' \subseteq answered \cup {answerer.token}
      /\ UNCHANGED <<keys, cache, floor, proven, adopted, newest>>
  BY DEF Posts, Inv, SessionTypeOK
<1>3. SessionTypeOK'
  BY <1>2, WorkerTyped DEF SessionTypeOK
<1>4. WorkerGoesOn
  BY <1>2 DEF WorkerGoesOn, SessionTypeOK
<1>5. Onwards
  BY <1>2, <1>3, <1>4 DEF Onwards, Inv, Floored
<1> QED BY <1>1, <1>5, QuietKeeps

LEMMA RetriesStep ==
    ASSUME Inv, Retries
    PROVE  Inv' /\ NotBack
<1>1. SessionTypeOK /\ keys \in Sessions /\ answerer.token \in Tokens
  BY DEF Retries, Inv, SessionTypeOK
<1>2. keys' \in Sessions /\ Quiet(keys, keys') /\ newest' = newest /\ NotBack
  BY <1>1, RefreshIsQuiet, QuietBecomes DEF Retries
<1>3. SessionTypeOK'
  BY <1>1, <1>2 DEF SessionTypeOK, Retries, NoWork
<1>4. Onwards
  BY <1>3 DEF Onwards, WorkerGoesOn, Retries, NoWork, Inv, Floored
<1> QED BY <1>2, <1>4, QuietKeeps

LEMMA PromotedAfterQuiet ==
    ASSUME NEW s \in Sessions, NEW r \in Sessions, NEW q, NEW t \in Tokens,
           Quiet(s, r), Promoted(r, q, t)
    PROVE  Promoted(s, q, t)
<1>1. ASSUME NEW u \in Tokens, s.seen[u] > 0
      PROVE  r.seen[u] > 0
  BY <1>1, GraceTypes DEF Quiet, Sessions
<1> QED BY <1>1 DEF Quiet, Promoted

\* The commit of a rekey leaves its key pending.
LEMMA CommitOfRekeyIsQuiet ==
    ASSUME NEW p \in Sessions, NEW t \in Tokens, p.pending[t] # Gone
    PROVE  Quiet(p, [p EXCEPT !.seen[t] = ReplayGrace, !.terminal = @ \ {t}])
<1> DEFINE seen == [p.seen EXCEPT ![t] = ReplayGrace]
           terminal == p.terminal \ {t}
           r == [p EXCEPT !.seen[t] = ReplayGrace, !.terminal = @ \ {t}]
<1>1. seen \in [Tokens -> Gone..ReplayGrace] /\ terminal \in SUBSET Tokens
  BY GraceTypes DEF Sessions
<1>2. r = [p EXCEPT !.seen = seen, !.terminal = terminal]
  BY DEF Sessions
<1>3. \A u \in Tokens :
         /\ p.seen[u] > 0 => seen[u] >= p.seen[u]
         /\ u # t /\ u \in p.terminal => u \in terminal
  BY GraceTypes DEF Sessions
<1> HIDE DEF r, seen, terminal
<1>4. r \in Sessions
  BY <1>1, <1>2 DEF Sessions
<1>5. /\ r.active = p.active /\ r.pending = p.pending
      /\ r.seen = seen /\ r.terminal = terminal
  BY <1>2 DEF Sessions
<1> QED BY <1>3, <1>4, <1>5 DEF Quiet, r

LEMMA CommitsStep ==
    ASSUME Inv, Commits
    PROVE  Inv' /\ NotBack
<1> DEFINE t == answerer.token
           r == refreshed(keys, t)
           p == prune_expired(r)
           s == IF answerer.stale THEN discarded(r, t) ELSE commit_responder_session(r, t)
<1>1. SessionTypeOK /\ keys \in Sessions /\ t \in Tokens /\ Becomes(s)
  BY DEF Commits, Inv, SessionTypeOK
<1>2. r \in Sessions /\ Quiet(keys, r)
  BY <1>1, RefreshIsQuiet DEF Quiet
<1> HIDE DEF r
<1>3. p \in Sessions /\ Quiet(r, p) /\ Quiet(keys, p)
  BY <1>1, <1>2, PruneIsQuiet, QuietIsTransitive DEF Quiet
<1>4. Quiet(keys, s) \/ (Promoted(keys, s, t) /\ keys.active = None)
  <2>1. CASE answerer.stale
    BY <1>1, <1>2, <2>1, DiscardIsQuiet, QuietIsTransitive
  <2>2. CASE ~answerer.stale /\ (p.active = t \/ p.pending[t] = Gone)
    BY <1>3, <2>2 DEF commit_responder_session
  <2>3. CASE ~answerer.stale /\ p.active = None /\ p.pending[t] # Gone
    <3>1. s = promote_pending(p, t)
      BY <1>1, <2>3, GraceTypes DEF commit_responder_session
    <3>2. Promoted(keys, s, t)
      BY <1>1, <1>2, <2>3, <3>1, PromoteAfterPrune, PromotedAfterQuiet
    <3> QED BY <1>3, <2>3, <3>2 DEF Quiet
  <2>4. CASE ~answerer.stale /\ p.active \notin {t, None} /\ p.pending[t] # Gone
    <3>1. s = [p EXCEPT !.seen[t] = ReplayGrace, !.terminal = @ \ {t}]
      BY <2>4 DEF commit_responder_session
    <3>2. Quiet(p, s)
      BY <1>1, <1>3, <2>4, <3>1, CommitOfRekeyIsQuiet
    <3> QED BY <1>1, <1>3, <3>2, QuietIsTransitive
  <2> QED BY <2>1, <2>2, <2>3, <2>4
<1> HIDE DEF s
<1>5. keys' \in Sessions /\ newest' \in Tokens \cup {None}
  BY <1>1, <1>4, QuietBecomes, PromotedBecomes DEF SessionTypeOK
<1>6. SessionTypeOK'
  BY <1>1, <1>5 DEF SessionTypeOK, Commits, NoWork
<1>7. Onwards
  BY <1>6 DEF Onwards, WorkerGoesOn, Commits, NoWork, Inv, Floored
<1>8. CASE Quiet(keys, s)
  BY <1>1, <1>7, <1>8, QuietBecomes, QuietKeeps
<1>9. CASE Promoted(keys, s, t) /\ keys.active = None
  BY <1>1, <1>7, <1>9, PromotedBecomes, PromotionKeeps
<1> QED BY <1>4, <1>8, <1>9

LEMMA ReceivesStep ==
    ASSUME Inv, NEW t \in Tokens, Receives(t)
    PROVE  Inv' /\ NotBack
<1> USE DEF busy
<1>1. SessionTypeOK /\ keys \in Sessions /\ t \in adopted
  BY DEF Receives, Inv, SessionTypeOK
<1>2. keys' \in Sessions /\ Quiet(keys, keys') /\ newest' = newest /\ NotBack
  BY <1>1, PruneIsQuiet, QuietBecomes DEF Receives
<1>3. SessionTypeOK'
  BY <1>1, <1>2 DEF SessionTypeOK, Receives
<1>4. Onwards
  BY <1>1, <1>3, Types DEF Onwards, WorkerGoesOn, Receives
<1> QED BY <1>2, <1>4, QuietKeeps

LEMMA PromotesStep ==
    ASSUME Inv, Promotes
    PROVE  Inv' /\ NotBack
<1> USE DEF busy
<1> DEFINE p == prune_expired(keys)
           s == IF p.pending[proven] # Gone THEN promote_pending(p, proven) ELSE p
<1>1. SessionTypeOK /\ keys \in Sessions /\ proven \in adopted /\ proven \in Tokens /\ Becomes(s)
  BY DEF Promotes, Inv, SessionTypeOK, Floored
<1>2. Quiet(keys, s) \/ Promoted(keys, s, proven)
  BY <1>1, PruneIsQuiet, PromoteAfterPrune
<1> HIDE DEF s
<1>3. keys' \in Sessions /\ newest' \in Tokens \cup {None}
  BY <1>1, <1>2, QuietBecomes, PromotedBecomes DEF SessionTypeOK
<1>4. SessionTypeOK'
  BY <1>1, <1>3 DEF SessionTypeOK, Promotes
<1>5. Onwards
  BY <1>1, <1>4, Types DEF Onwards, WorkerGoesOn, Promotes
<1>6. CASE Quiet(keys, s)
  BY <1>1, <1>5, <1>6, QuietBecomes, QuietKeeps
<1>7. CASE Promoted(keys, s, proven)
  BY <1>1, <1>5, <1>7, PromotedBecomes, PromotionKeeps
<1> QED BY <1>2, <1>6, <1>7

LEMMA ProbeConfirmsStep ==
    ASSUME Inv, NEW t \in Tokens, ProbeConfirms(t)
    PROVE  Inv' /\ NotBack
<1> USE DEF busy
<1> DEFINE s == IF keys.pending[t] # Gone THEN promote_pending(keys, t) ELSE prune_expired(keys)
<1>1. SessionTypeOK /\ keys \in Sessions /\ t \in adopted /\ Becomes(s)
  BY DEF ProbeConfirms, Inv, SessionTypeOK
<1>2. Quiet(keys, s) \/ Promoted(keys, s, t)
  BY <1>1, PruneIsQuiet, PromotePromotes
<1> HIDE DEF s
<1>3. keys' \in Sessions /\ newest' \in Tokens \cup {None}
  BY <1>1, <1>2, QuietBecomes, PromotedBecomes DEF SessionTypeOK
<1>4. SessionTypeOK'
  BY <1>1, <1>3 DEF SessionTypeOK, ProbeConfirms
<1>5. Onwards
  BY <1>1, <1>4, Types DEF Onwards, WorkerGoesOn, ProbeConfirms, Inv, Floored
<1>6. CASE Quiet(keys, s)
  BY <1>1, <1>5, <1>6, QuietBecomes, QuietKeeps
<1>7. CASE Promoted(keys, s, t)
  BY <1>1, <1>5, <1>7, PromotedBecomes, PromotionKeeps
<1> QED BY <1>2, <1>6, <1>7

LEMMA PrunesStep ==
    ASSUME Inv, Prunes
    PROVE  Inv' /\ NotBack
<1> USE DEF busy
<1>1. SessionTypeOK /\ keys \in Sessions
  BY DEF Inv, SessionTypeOK
<1>2. keys' \in Sessions /\ Quiet(keys, keys') /\ newest' = newest /\ NotBack
  BY <1>1, PruneIsQuiet, QuietBecomes DEF Prunes
<1>3. SessionTypeOK'
  BY <1>1, <1>2 DEF SessionTypeOK, Prunes
<1>4. Onwards
  BY <1>1, <1>3, Types DEF Onwards, WorkerGoesOn, Prunes, Inv, Floored
<1> QED BY <1>2, <1>4, QuietKeeps

\* Answers and their memory age together.
LEMMA TickStep ==
    ASSUME Inv, Tick
    PROVE  Inv' /\ NotBack
<1> USE DEF busy, admitted
<1> DEFINE pending == [t \in Tokens |-> passed(keys.pending[t])]
           seen == [t \in Tokens |-> passed(keys.seen[t])]
           retained == passed(keys.retained)
<1>1. /\ SessionTypeOK /\ Floored /\ Remembered /\ EndedForGood /\ FreshIsNew /\ NewAfterRetired
      /\ keys \in Sessions /\ ~admitted
      /\ UNCHANGED <<floor, answerer, proven, answered, adopted, newest>>
  BY DEF Tick, Inv, SessionTypeOK
<1>2. \A t \in Tokens :
         /\ pending[t] \in Gone..PendingGrace /\ (pending[t] # Gone <=> keys.pending[t] # Gone)
         /\ seen[t] \in Gone..ReplayGrace /\ (keys.seen[t] > 0 => seen[t] = keys.seen[t] - 1)
  BY <1>1, GraceTypes DEF passed, Sessions
<1>3. retained \in 0..PreviousGrace
  BY <1>1, GraceTypes DEF passed, Sessions
<1>4. keys' = [keys EXCEPT !.retained = retained, !.pending = pending, !.seen = seen]
  BY DEF Tick
<1>5. cache' \in [Tokens -> 0..CacheTtl]
      /\ \A t \in Tokens : cache'[t] > 0 => cache'[t] = cache[t] - 1 /\ cache[t] > 0
  <2>1. cache' = [t \in Tokens |-> passed(cache[t])]
    BY DEF Tick
  <2>2. \A t \in Tokens : cache[t] \in 0..CacheTtl
    BY <1>1 DEF SessionTypeOK
  <2>3. ASSUME NEW n \in 0..CacheTtl PROVE passed(n) \in 0..CacheTtl
    BY GraceTypes DEF passed
  <2> QED BY <2>1, <2>2, <2>3, GraceTypes DEF passed
<1>6. pending \in [Tokens -> Gone..PendingGrace] /\ seen \in [Tokens -> Gone..ReplayGrace]
  BY <1>2
<1> HIDE DEF pending, seen, retained
<1>7. /\ keys' \in Sessions
      /\ keys'.active = keys.active /\ keys'.terminal = keys.terminal
      /\ keys'.pending = pending /\ keys'.seen = seen
  BY <1>1, <1>3, <1>4, <1>6 DEF Sessions
<1>8. SessionTypeOK'
  BY <1>1, <1>5, <1>7 DEF SessionTypeOK
<1>9. Floored'
  BY <1>1, <1>2, <1>5, <1>7 DEF Floored
<1>10. Remembered'
  <2>1. ASSUME NEW t \in Tokens, cache'[t] > 0,
               \/ t \in answered \/ t = newest \/ keys'.pending[t] # Gone
               \/ busy /\ ~admitted /\ answerer.token = t
        PROVE  keys'.seen[t] >= cache'[t]
    <3>1. keys.seen[t] >= cache[t] /\ cache[t] > 0 /\ cache'[t] = cache[t] - 1
      BY <1>1, <1>2, <1>5, <1>7, <2>1 DEF Remembered
    <3> QED BY <1>1, <1>2, <1>7, <3>1, Types
  <2> QED BY <1>1, <2>1 DEF Remembered
<1>11. EndedForGood'
  BY <1>1, <1>2, <1>5, <1>7 DEF EndedForGood, Ended
<1>12. FreshIsNew'
  BY <1>1 DEF FreshIsNew
<1>13. NewAfterRetired'
  BY <1>1, <1>2, <1>5, <1>7 DEF NewAfterRetired
<1> QED BY <1>7, <1>8, <1>9, <1>10, <1>11, <1>12, <1>13 DEF Inv, NotBack

LEMMA PeerRetiredStep ==
    ASSUME Inv, PeerRetired
    PROVE  Inv' /\ NotBack
<1> USE DEF busy, admitted
<1>1. /\ SessionTypeOK /\ Floored
      /\ keys' = NoSessions /\ answerer' = NoWork /\ cache' = [t \in Tokens |-> 0]
      /\ UNCHANGED <<floor, proven, adopted, newest>>
  BY DEF PeerRetired, Inv
<1>2. /\ keys' \in Sessions /\ keys'.active = None
      /\ \A t \in Tokens : keys'.pending[t] = Gone /\ cache'[t] = 0
      /\ ~busy' /\ ~admitted'
  BY <1>1, NoSessionsTyped DEF NoSessions, NoWork
<1>3. /\ answered \subseteq answered'
      /\ \A t \in answered' : t \in answered \/ (busy /\ t = answerer.token)
      /\ answered' \subseteq Tokens
  BY DEF PeerRetired, Inv, SessionTypeOK
<1>4. SessionTypeOK'
  <2>1. cache' \in [Tokens -> 0..CacheTtl]
    BY <1>1, GraceTypes
  <2> QED BY <1>1, <1>2, <1>3, <2>1 DEF SessionTypeOK, NoWork
<1>5. Floored'
  BY <1>1, <1>2, <1>3 DEF Floored
<1>6. Remembered' /\ EndedForGood' /\ FreshIsNew' /\ NewAfterRetired'
  BY <1>2 DEF Remembered, EndedForGood, FreshIsNew, NewAfterRetired, Ended
<1> QED BY <1>2, <1>4, <1>5, <1>6 DEF Inv, NotBack

LEMMA NetworkChangesStep ==
    ASSUME Inv, NetworkChanges
    PROVE  Inv' /\ NotBack
<1> USE DEF busy, admitted
<1>1. keys' = keys /\ newest' = newest /\ Quiet(keys, keys') /\ NotBack
  BY SameIsQuiet DEF NetworkChanges, Inv, SessionTypeOK, NotBack
<1>2. /\ cache' = [t \in Tokens |-> 0] /\ answerer' = [answerer EXCEPT !.stale = answerer.pc # "idle"]
      /\ UNCHANGED <<keys, floor, proven, answered, adopted, newest>>
  BY DEF NetworkChanges
<1>3. SessionTypeOK'
  <2>1. cache' \in [Tokens -> 0..CacheTtl]
    BY <1>2, GraceTypes
  <2>2. (answerer.pc # "idle") \in BOOLEAN
    OBVIOUS
  <2> QED BY <1>2, <2>1, <2>2 DEF SessionTypeOK, Inv
<1>4. WorkerGoesOn
  BY <1>2 DEF WorkerGoesOn, Inv, SessionTypeOK
<1>5. Onwards
  BY <1>2, <1>3, <1>4 DEF Onwards, Inv, Floored
<1> QED BY <1>1, <1>5, QuietKeeps

\* What the peer adopts is the newest transaction, so it ends no key that was
\* not over before.
LEMMA PeerAdoptsStep ==
    ASSUME Inv, NEW t \in Tokens, PeerAdopts(t)
    PROVE  Inv' /\ NotBack
<1>1. /\ t \in answered /\ t = floor /\ adopted' = adopted \cup {t}
      /\ UNCHANGED <<keys, cache, floor, answerer, proven, answered, newest>>
  BY DEF PeerAdopts
<1>2. SessionTypeOK'
  BY <1>1 DEF Inv, SessionTypeOK
<1>3. Ended' \subseteq Ended
  BY <1>1, Types DEF Ended, Inv, Floored
<1>4. Floored' /\ Remembered' /\ FreshIsNew' /\ NewAfterRetired'
  BY <1>1 DEF Inv, Floored, Remembered, FreshIsNew, NewAfterRetired, busy, admitted
<1>5. EndedForGood'
  BY <1>1, <1>3 DEF Inv, EndedForGood, admitted
<1> QED BY <1>1, <1>2, <1>4, <1>5 DEF Inv, NotBack

-----------------------------------------------------------------------------
(* The theorems.                                                           *)

LEMMA InitInv == SessionInit => Inv
<1> SUFFICES ASSUME SessionInit PROVE Inv
  OBVIOUS
<1>1. SessionTypeOK
  BY NoSessionsTyped, GraceTypes DEF SessionInit, SessionTypeOK, NoWork
<1>2. /\ newest = 0 /\ floor = 0 /\ keys.active = None /\ answerer.pc = "idle"
      /\ adopted = {} /\ answered = {} /\ proven = None
      /\ \A t \in Tokens : keys.pending[t] = Gone /\ cache[t] = 0
  BY GraceTypes DEF SessionInit, NoSessions, NoWork
<1> QED BY <1>1, <1>2, GraceTypes
        DEF Inv, Floored, Remembered, EndedForGood, Ended, FreshIsNew, NewAfterRetired,
            busy, admitted

LEMMA NextInv ==
    ASSUME Inv, SessionNext
    PROVE  Inv' /\ NotBack
  BY AdmitsStep, ReceivesStep, ProbeConfirmsStep, PeerAdoptsStep, TurnsStaleStep,
     RefusesOfferStep, StageTimesOutStep, StagesStep, ServesAgainStep, PostsStep,
     RetriesStep, CommitsStep, PromotesStep, PrunesStep, TickStep, PeerRetiredStep,
     NetworkChangesStep
  DEF SessionNext

LEMMA StutterInv ==
    ASSUME Inv, UNCHANGED sessionVars
    PROVE  Inv' /\ NotBack
  BY DEF sessionVars, Inv, SessionTypeOK, Floored, Remembered, EndedForGood, Ended, FreshIsNew,
         NewAfterRetired, busy, admitted, NotBack

\* Whatever the order of offers, replays, retries, packets, expiry, network
\* changes and departures, the three memories of a transaction agree.
THEOREM MemoriesAgree == SessionSpec => []Inv
<1>1. Inv /\ [SessionNext]_sessionVars => Inv'
  BY NextInv, StutterInv
<1> QED BY InitInv, <1>1, PTL DEF SessionSpec

\* A key that becomes active is newer than every key that has been active
\* before: no replayed, retried or late handshake rolls a peer back
\* (transport/sessions.rs:12).
THEOREM KeysOnlyAdvance == SessionSpec => NeverRolledBack
<1>1. Inv /\ [SessionNext]_sessionVars
      => [keys'.active \notin {keys.active, None} => keys'.active > newest]_sessionVars
  BY NextInv, StutterInv DEF NotBack
<1> QED BY <1>1, MemoriesAgree, PTL DEF SessionSpec, NeverRolledBack

-----------------------------------------------------------------------------
(* The initiator's end.                                                    *)

fresh == own # NoKey /\ own.age = 0

\* Offers are handled in their order, so the worker is never behind the
\* timestamp floor; an initiator that has just installed a key has no newer
\* offer out.
InOrder ==
    /\ mine = NoOffer \/ (mine.token \in Tokens /\ mine.left > 0 /\ mine.token = offered)
    /\ own = NoKey \/ own.token \in Tokens
    /\ floor <= offered
    /\ \A t \in offers : floor <= t /\ t <= offered
    /\ busy => answerer.token = floor
    /\ fresh => mine = NoOffer /\ own.token = floor /\ floor = offered

Holds(n) == keys.active = floor \/ keys.pending[floor] >= n \/ floor \in lost

\* While the initiator waits for the answer, its key is pending for at least
\* as long as it will wait.
Backed ==
    /\ mine # NoOffer /\ mine.token = floor /\ (published \/ floor \in answered)
       => Holds(mine.left)
    /\ fresh => Holds(1)

HeldInv == Inv /\ HandshakeTypeOK /\ InOrder /\ Backed

InitiatorTyped ==
    /\ mine \in [token : Tokens \cup {None}, left : 0..InitiatorTimeout]
    /\ own \in [token : Tokens \cup {None}, age : 0..RekeyAfter]
    /\ offers \subseteq Tokens /\ offered \in Tokens \cup {None}
    /\ lost \subseteq Tokens /\ faults \in 0..MaxMishaps

LEMMA TimeoutTypes ==
    /\ RekeyAfter \in Nat /\ RekeyAfter > 0
    /\ InitiatorTimeout \in Nat /\ InitiatorTimeout > 0 /\ InitiatorTimeout <= PendingGrace
    /\ MaxMishaps \in Nat /\ PendingGrace \in Nat
  BY TimeoutsAssumption, GracesAssumption

LEMMA NoOfferTyped ==
    /\ NoOffer.token = None /\ NoOffer.left = 0 /\ NoKey.token = None /\ NoKey.age = 0
    /\ NoOffer \in [token : Tokens \cup {None}, left : 0..InitiatorTimeout]
    /\ NoKey \in [token : Tokens \cup {None}, age : 0..RekeyAfter]
  BY TimeoutTypes DEF NoOffer, NoKey

\* What PeerAdopts asks for follows from the order.
LEMMA TypedFromOrder ==
    ASSUME Inv', InitiatorTyped', InOrder'
    PROVE  HandshakeTypeOK'
<1>1. SessionTypeOK' /\ answered' \subseteq Tokens /\ \A t \in answered' : t <= floor'
  BY DEF Inv, Floored, SessionTypeOK
<1>2. ASSUME mine'.token \in answered' PROVE mine'.token = floor'
  <2>1. mine'.token \in Tokens /\ mine' # NoOffer
    BY <1>1, <1>2, NoOfferTyped, GraceTypes
  <2>2. mine'.token = offered' /\ floor' <= offered' /\ mine'.token <= floor'
    BY <1>1, <1>2, <2>1 DEF InOrder
  <2>3. floor' \in Tokens \cup {None}
    BY <1>1 DEF SessionTypeOK
  <2>4. \A t \in Tokens \cup {None} : t \in Int
    BY GraceTypes
  <2>5. offered' \in Tokens \cup {None}
    BY <2>1, <2>2
  <2> QED BY <2>2, <2>3, <2>4, <2>5
<1> QED BY <1>1, <1>2 DEF HandshakeTypeOK, InitiatorTyped

\* A key in use or pending stays, at least as long.
Keeps(s, r, t) ==
    /\ s.active = t => r.active = t
    /\ s.pending[t] > 0 => r.active = t \/ r.pending[t] >= s.pending[t]

LEMMA PruneHolds ==
    ASSUME NEW s \in Sessions, NEW t \in Tokens
    PROVE  /\ Keeps(s, prune_expired(s), t)
           /\ prune_expired(s) \in Sessions /\ prune_expired(s).active = s.active
           /\ s.pending[t] > 0 => prune_expired(s).pending[t] = s.pending[t]
<1>1. prune_expired(s) \in Sessions
  BY PruneIsQuiet DEF Quiet
<1>2. /\ prune_expired(s).active = s.active
      /\ prune_expired(s).pending[t] = IF s.pending[t] = 0 THEN Gone ELSE s.pending[t]
  BY DEF prune_expired, Sessions
<1>3. s.pending[t] \in Gone..PendingGrace
  BY DEF Sessions
<1>4. s.pending[t] > 0 => prune_expired(s).pending[t] = s.pending[t]
  BY <1>2, <1>3, GraceTypes
<1> QED BY <1>1, <1>2, <1>3, <1>4, GraceTypes DEF Keeps

LEMMA RefreshHolds ==
    ASSUME NEW s \in Sessions, NEW t \in Tokens
    PROVE  /\ Keeps(s, refreshed(s, t), t)
           /\ refreshed(s, t) \in Sessions
           /\ s.pending[t] # Gone => refreshed(s, t).pending[t] = PendingGrace
<1>1. refreshed(s, t) \in Sessions
  BY RefreshIsQuiet DEF Quiet
<1>2. /\ refreshed(s, t).active = s.active
      /\ refreshed(s, t).pending[t] = IF s.pending[t] = Gone THEN Gone ELSE PendingGrace
  BY DEF refreshed, Sessions
<1>3. s.pending[t] \in Gone..PendingGrace
  BY DEF Sessions
<1> QED BY <1>1, <1>2, <1>3, GraceTypes DEF Keeps

LEMMA KeepsIsTransitive ==
    ASSUME NEW s \in Sessions, NEW r \in Sessions, NEW q \in Sessions, NEW t \in Tokens,
           Keeps(s, r, t), Keeps(r, q, t)
    PROVE  Keeps(s, q, t)
<1>1. s.pending[t] \in Int /\ r.pending[t] \in Int /\ q.pending[t] \in Int
  BY GraceTypes DEF Sessions
<1> QED BY <1>1 DEF Keeps

LEMMA CommitHolds ==
    ASSUME NEW s \in Sessions, NEW t \in Tokens
    PROVE  Keeps(s, commit_responder_session(s, t), t)
<1> DEFINE p == prune_expired(s)
           c == commit_responder_session(s, t)
<1>1. /\ p \in Sessions /\ Keeps(s, p, t) /\ p.active = s.active
      /\ s.pending[t] > 0 => p.pending[t] = s.pending[t]
  BY PruneHolds
<1> HIDE DEF p
<1>2. s.pending[t] \in Int /\ p.pending[t] \in Int
  BY <1>1, GraceTypes DEF Sessions
<1>3. CASE p.active = t \/ p.pending[t] = Gone
  BY <1>1, <1>3 DEF commit_responder_session, p
<1>4. CASE p.active = None /\ p.pending[t] # Gone
  <2>1. c.active = t
    BY <1>4, GraceTypes DEF commit_responder_session, promote_pending, p
  <2> QED BY <2>1 DEF Keeps
<1>5. CASE p.active \notin {t, None} /\ p.pending[t] # Gone
  <2>1. c = [p EXCEPT !.seen[t] = ReplayGrace, !.terminal = @ \ {t}]
    BY <1>5 DEF commit_responder_session, p
  <2>2. c.active = p.active /\ c.pending = p.pending
    BY <1>1, <2>1 DEF Sessions
  <2> HIDE DEF c
  <2>3. Keeps(s, c, t)
    BY <1>1, <1>2, <2>2 DEF Keeps
  <2> QED BY <2>3 DEF c
<1> QED BY <1>3, <1>4, <1>5

-----------------------------------------------------------------------------
(* What a step of the sessions means for the newest transaction.           *)

\* The worker goes on with its offer, and only its answer goes out; a key it
\* has staged is pending for a whole grace.
WorkerStays ==
    /\ floor' = floor
    /\ busy' => busy /\ answerer'.token = answerer.token
    /\ answered' \subseteq answered \cup (IF published THEN {floor} ELSE {})
    /\ published' => published \/ keys'.active = floor \/ keys'.pending[floor] = PendingGrace

KeepsNewest == floor \in Tokens => Keeps(keys, keys', floor)

\* A key goes that the peer has installed, for one of the reasons of lost.
LetsNewest ==
    \/ answerer.pc = "accepted" /\ answerer.stale /\ answerer' = NoWork
    \/ keys'.active \notin {keys.active, None, floor} /\ keys'.active \in adopted
       /\ keys.active # floor

LEMMA SameKeeps == ASSUME SessionTypeOK, keys' = keys PROVE KeepsNewest
<1> SUFFICES ASSUME floor \in Tokens PROVE Keeps(keys, keys', floor)
  BY DEF KeepsNewest
<1>1. keys.pending[floor] \in Int
  BY GraceTypes DEF SessionTypeOK, Sessions
<1> QED BY <1>1 DEF Keeps

LEMMA PruneKeeps == ASSUME SessionTypeOK, keys' = prune_expired(keys) PROVE KeepsNewest
  BY PruneHolds DEF KeepsNewest, SessionTypeOK

\* Only the offer at the floor is worked on.
LEMMA WorksOnNewest ==
    ASSUME Inv, InOrder, busy
    PROVE  answerer.token = floor /\ floor \in Tokens /\ keys \in Sessions
  BY DEF Inv, SessionTypeOK, InOrder, busy

LEMMA StagesHolds ==
    ASSUME Inv, InOrder, NEW b, Stages(b)
    PROVE  WorkerStays /\ KeepsNewest
<1> DEFINE t == answerer.token
           p == prune_expired(keys)
<1>1. busy /\ ~published
  BY DEF Stages, busy, published, admitted
<1>2. t = floor /\ floor \in Tokens /\ keys \in Sessions
  BY <1>1, WorksOnNewest
<1>3. p.active # t /\ p.pending[t] = Gone
  BY DEF Stages, stageable, duplicate
<1>4. p \in Sessions /\ p.active = keys.active
      /\ (keys.pending[t] > 0 => p.pending[t] = keys.pending[t])
  BY <1>2, PruneHolds
<1>5. KeepsNewest
  BY <1>2, <1>3, <1>4, GraceTypes DEF KeepsNewest, Keeps
<1>6. floor' = floor /\ answered' = answered
  BY DEF Stages
<1>7. \/ answerer'.pc = "idle"
      \/ answerer' = [answerer EXCEPT !.pc = "staged"] /\ keys' = staged(p, t)
  BY DEF Stages, Becomes, NoWork
<1>8. staged(p, t).pending[t] = PendingGrace
  BY <1>2, <1>4 DEF staged, Sessions
<1> HIDE DEF p
<1>9. answerer' = [answerer EXCEPT !.pc = "staged"] => answerer'.token = answerer.token
  BY DEF Inv, SessionTypeOK
<1>10. WorkerStays
  BY <1>1, <1>2, <1>6, <1>7, <1>8, <1>9 DEF WorkerStays, busy, published
<1> QED BY <1>5, <1>10

LEMMA ServesAgainHolds ==
    ASSUME Inv, InOrder, NEW b, ServesAgain(b)
    PROVE  WorkerStays /\ KeepsNewest
<1> DEFINE t == answerer.token
           p == prune_expired(keys)
           s == IF p.active = t THEN p ELSE refreshed(p, t)
<1>1. busy /\ ~published
  BY DEF ServesAgain, busy, published, admitted
<1>2. t = floor /\ floor \in Tokens /\ keys \in Sessions
  BY <1>1, WorksOnNewest
<1>3. p \in Sessions /\ Keeps(keys, p, t)
  BY <1>2, PruneHolds
<1>4. keys' = s /\ duplicate(p, t)
  BY DEF ServesAgain, Becomes
<1> HIDE DEF p
<1>5. /\ Keeps(p, refreshed(p, t), t) /\ refreshed(p, t) \in Sessions
      /\ p.pending[t] # Gone => refreshed(p, t).pending[t] = PendingGrace
  BY <1>2, <1>3, RefreshHolds
<1>6. KeepsNewest
  BY <1>2, <1>3, <1>4, <1>5, KeepsIsTransitive DEF KeepsNewest
<1>7. keys'.active = floor \/ keys'.pending[floor] = PendingGrace
  BY <1>2, <1>4, <1>5 DEF duplicate
<1>8. floor' = floor /\ answered' = answered
  BY DEF ServesAgain
<1>9. answerer'.pc = "idle" \/ answerer'.token = answerer.token
  BY DEF ServesAgain, NoWork, Inv, SessionTypeOK
<1>10. WorkerStays
  BY <1>1, <1>7, <1>8, <1>9 DEF WorkerStays, busy
<1> QED BY <1>6, <1>10

LEMMA PostsHolds ==
    ASSUME Inv, InOrder, NEW outcome \in {"accepted", "ambiguous"}, NEW out, Posts(outcome, out)
    PROVE  WorkerStays /\ KeepsNewest
<1>1. busy /\ published
  BY DEF Posts, busy, published, admitted
<1>2. KeepsNewest
  BY SameKeeps DEF Inv, Posts
<1>3. answerer'.token = answerer.token /\ floor' = floor
  BY DEF Posts, Inv, SessionTypeOK
<1>4. answered' \subseteq answered \cup {floor}
  BY <1>1, WorksOnNewest DEF Posts
<1> QED BY <1>1, <1>2, <1>3, <1>4 DEF WorkerStays

LEMMA RetriesHolds ==
    ASSUME Inv, InOrder, Retries
    PROVE  WorkerStays /\ KeepsNewest /\ answerer.token = floor /\ floor \in Tokens
<1>1. busy
  BY DEF Retries, busy
<1>2. answerer.token = floor /\ floor \in Tokens /\ keys \in Sessions
  BY <1>1, WorksOnNewest
<1>3. KeepsNewest
  BY <1>2, RefreshHolds DEF Retries, Becomes, KeepsNewest
<1>4. WorkerStays
  BY DEF WorkerStays, Retries, NoWork, busy, published
<1> QED BY <1>2, <1>3, <1>4

\* The worker ends, and the keys are at most pruned.
LEMMA WorkerGivesUp ==
    ASSUME Inv, TurnsStale \/ RefusesOffer \/ StageTimesOut
    PROVE  WorkerStays /\ KeepsNewest
<1>1. keys' = keys \/ keys' = prune_expired(keys)
  BY DEF TurnsStale, RefusesOffer, StageTimesOut, Becomes
<1>2. WorkerStays
  BY DEF WorkerStays, TurnsStale, RefusesOffer, StageTimesOut, NoWork, busy, published
<1> QED BY <1>1, <1>2, SameKeeps, PruneKeeps DEF Inv

LEMMA CommitsHolds ==
    ASSUME Inv, InOrder, Commits
    PROVE  WorkerStays /\ (KeepsNewest \/ LetsNewest)
<1> DEFINE r == refreshed(keys, floor)
<1>1. busy
  BY DEF Commits, busy
<1>2. answerer.token = floor /\ floor \in Tokens /\ keys \in Sessions
  BY <1>1, WorksOnNewest
<1>3. WorkerStays
  BY DEF WorkerStays, Commits, NoWork, busy, published
<1>4. CASE answerer.stale
  BY <1>3, <1>4 DEF Commits, LetsNewest
<1>5. CASE ~answerer.stale
  <2>1. keys' = commit_responder_session(r, floor)
    BY <1>2, <1>5 DEF Commits, Becomes
  <2>2. r \in Sessions /\ Keeps(keys, r, floor)
    BY <1>2, RefreshHolds
  <2> HIDE DEF r
  <2>3. Keeps(r, keys', floor)
    BY <1>2, <2>1, <2>2, CommitHolds
  <2>4. keys' \in Sessions
    BY CommitsStep DEF Inv, SessionTypeOK
  <2> QED BY <1>2, <1>3, <2>2, <2>3, <2>4, KeepsIsTransitive DEF KeepsNewest
<1> QED BY <1>4, <1>5

\* A key with traffic behind it becomes active: the newest one, or one the
\* peer has installed and so one of the reasons.
LEMMA PromotionHolds ==
    ASSUME Inv, SessionTypeOK', NEW t \in adopted, Promoted(keys, keys', t),
           newest' = t /\ t > newest
    PROVE  KeepsNewest \/ LetsNewest
<1>1. keys'.active = t /\ keys.pending[t] # Gone /\ t \in Tokens
  BY DEF Promoted, Inv, SessionTypeOK
<1>2. CASE t = floor
  BY <1>1, <1>2 DEF KeepsNewest, Keeps
<1>3. CASE t # floor
  <2>1. t <= floor /\ adopted \subseteq answered /\ keys.active \in {None, newest}
    BY <1>1 DEF Inv, Floored
  <2>2. newest \in Int /\ t \in Int /\ t # None /\ floor \in Int /\ floor # None
    BY <1>1, <2>1, Types, GraceTypes DEF Inv
  <2>3. keys.active # t /\ keys.active # floor
    BY <2>1, <2>2
  <2> QED BY <1>1, <1>3, <2>2, <2>3 DEF LetsNewest
<1> QED BY <1>2, <1>3

LEMMA PromotesHolds ==
    ASSUME Inv, Promotes
    PROVE  WorkerStays /\ adopted' = adopted /\ (KeepsNewest \/ LetsNewest)
<1> DEFINE p == prune_expired(keys)
<1>1. SessionTypeOK /\ SessionTypeOK' /\ keys \in Sessions /\ proven \in adopted /\ proven \in Tokens
  BY PromotesStep DEF Promotes, Inv, SessionTypeOK, Floored
<1>2. WorkerStays /\ adopted' = adopted
  BY DEF WorkerStays, Promotes, busy, published, admitted
<1>3. CASE p.pending[proven] = Gone
  BY <1>1, <1>2, <1>3, PruneKeeps DEF Promotes, Becomes
<1>4. CASE p.pending[proven] # Gone
  <2>1. Becomes(promote_pending(p, proven)) /\ Promoted(keys, promote_pending(p, proven), proven)
    BY <1>1, <1>4, PromoteAfterPrune DEF Promotes
  <2>2. Promoted(keys, keys', proven) /\ newest' = proven /\ proven > newest
    BY <1>1, <2>1, PromotedBecomes DEF Becomes
  <2> QED BY <1>1, <1>2, <2>2, PromotionHolds
<1> QED BY <1>3, <1>4

LEMMA ProbeConfirmsHolds ==
    ASSUME Inv, NEW t \in Tokens, ProbeConfirms(t)
    PROVE  WorkerStays /\ adopted' = adopted /\ (KeepsNewest \/ LetsNewest)
<1>1. SessionTypeOK /\ SessionTypeOK' /\ keys \in Sessions /\ t \in adopted
  BY ProbeConfirmsStep DEF ProbeConfirms, Inv, SessionTypeOK
<1>2. WorkerStays /\ adopted' = adopted
  BY DEF WorkerStays, ProbeConfirms, busy, published, admitted
<1>3. CASE keys.pending[t] = Gone
  BY <1>1, <1>2, <1>3, PruneKeeps DEF ProbeConfirms, Becomes
<1>4. CASE keys.pending[t] # Gone
  <2>1. Becomes(promote_pending(keys, t)) /\ Promoted(keys, promote_pending(keys, t), t)
    BY <1>1, <1>4, PromotePromotes DEF ProbeConfirms
  <2>2. Promoted(keys, keys', t) /\ newest' = t /\ t > newest
    BY <1>1, <2>1, PromotedBecomes DEF Becomes
  <2> QED BY <1>1, <1>2, <2>2, PromotionHolds
<1> QED BY <1>3, <1>4

LEMMA PacketHolds ==
    ASSUME Inv, NEW t \in Tokens, Receives(t) \/ Prunes
    PROVE  WorkerStays /\ KeepsNewest
<1>1. WorkerStays /\ keys' = prune_expired(keys)
  BY DEF WorkerStays, Receives, Prunes, Becomes, busy, published, admitted
<1> QED BY <1>1, PruneKeeps DEF Inv

-----------------------------------------------------------------------------
(* The initiator's invariant, step by step.                                *)

\* What lost has to say when the newest key goes.
Accounted ==
    \/ KeepsNewest
    \/ floor \in lost'
    \/ keys.active # floor /\ keys.pending[floor] = Gone

LEMMA LosesAccounts ==
    ASSUME Inv, InOrder, KeepsNewest \/ LetsNewest, Loses, adopted' = adopted
    PROVE  Accounted
<1> SUFFICES ASSUME floor \in Tokens, LetsNewest PROVE Accounted
  BY DEF Accounted, KeepsNewest
<1>1. CASE answerer.pc = "accepted" /\ answerer.stale /\ answerer' = NoWork
  <2>1. busy
    BY <1>1 DEF busy
  <2>2. answerer.token = floor
    BY <2>1, WorksOnNewest
  <2>3. answerer.token \in lost'
    BY <1>1 DEF Loses
  <2> QED BY <2>2, <2>3 DEF Accounted
<1>2. CASE /\ keys'.active \notin {keys.active, None, floor} /\ keys'.active \in adopted
           /\ keys.active # floor
  <2>1. {t \in Tokens \ {keys'.active} : keys.pending[t] # Gone} \subseteq lost'
    BY <1>2 DEF Loses
  <2> QED BY <1>2, <2>1 DEF Accounted
<1> QED BY <1>1, <1>2 DEF LetsNewest

LEMMA LosesTypes ==
    ASSUME SessionTypeOK, lost \subseteq Tokens, Loses
    PROVE  lost' \subseteq Tokens /\ lost \subseteq lost'
<1>1. answerer.pc = "accepted" => answerer.token \in Tokens
  BY DEF SessionTypeOK
<1> QED BY <1>1 DEF Loses

\* An initiator that waits goes on waiting or gives up.
InitiatorStays ==
    /\ offered' = offered
    /\ mine' \in {mine, NoOffer} /\ own' \in {own, NoKey}
    /\ offers' \subseteq Tokens
    /\ \A t \in offers' : t \in offers \/ (floor <= t /\ t <= offered)
    /\ faults' \in 0..MaxMishaps

LEMMA HeldByStep ==
    ASSUME HeldInv, Inv', WorkerStays, InitiatorStays, Accounted,
           lost \subseteq lost', lost' \subseteq Tokens
    PROVE  HeldInv'
<1> USE DEF fresh
<1>1. Inv /\ HandshakeTypeOK /\ InOrder /\ Backed /\ SessionTypeOK
  BY DEF HeldInv, Inv
<1>2. InOrder'
  BY <1>1 DEF InOrder, WorkerStays, InitiatorStays
<1>3. InitiatorTyped'
  BY <1>1, NoOfferTyped DEF HandshakeTypeOK, InitiatorTyped, InitiatorStays
<1>4. HandshakeTypeOK'
  BY <1>2, <1>3, TypedFromOrder
<1>5. floor' = floor /\ SessionTypeOK'
  BY DEF WorkerStays, Inv
<1>6. ASSUME NEW n \in 1..PendingGrace, floor \in Tokens, Holds(n)
      PROVE  Holds(n)'
  <2>1. keys.pending[floor] \in Int /\ keys'.pending[floor] \in Int /\ Gone = -1
    BY <1>1, <1>5, <1>6, GraceTypes DEF SessionTypeOK, Sessions
  <2>2. CASE KeepsNewest
    BY <1>5, <1>6, <2>1, <2>2 DEF Holds, KeepsNewest, Keeps
  <2>3. CASE floor \in lost'
    BY <1>5, <2>3 DEF Holds
  <2>4. CASE keys.active # floor /\ keys.pending[floor] = Gone
    BY <1>5, <1>6, <2>1, <2>4 DEF Holds
  <2> QED BY <2>2, <2>3, <2>4 DEF Accounted
<1>7. ASSUME mine' # NoOffer, mine'.token = floor', published' \/ floor' \in answered'
      PROVE  Holds(mine.left)' /\ mine' = mine
  <2>1. mine' = mine /\ mine # NoOffer
    BY <1>7 DEF InitiatorStays
  <2>2. mine.token = floor /\ floor \in Tokens /\ mine.left \in 1..PendingGrace
    BY <1>1, <1>5, <1>7, <2>1, TimeoutTypes DEF InOrder, HandshakeTypeOK
  <2>3. CASE published \/ floor \in answered
    <3>1. Holds(mine.left)
      BY <1>1, <2>1, <2>2, <2>3 DEF Backed
    <3>2. \A n \in 1..PendingGrace : Holds(n) => Holds(n)'
      BY <1>6, <2>2
    <3>3. keys'.active = floor' \/ keys'.pending[floor'] >= mine.left \/ floor' \in lost'
      BY <2>2, <3>1, <3>2 DEF Holds
    <3> QED BY <2>1, <3>3 DEF Holds
  <2>4. CASE ~(published \/ floor \in answered)
    <3>1. published'
      BY <1>5, <1>7, <2>4 DEF WorkerStays
    <3>2. keys'.active = floor \/ keys'.pending[floor] = PendingGrace
      BY <2>4, <3>1 DEF WorkerStays
    <3> QED BY <1>5, <2>1, <2>2, <3>2, TimeoutTypes DEF Holds
  <2> QED BY <2>3, <2>4
<1>8. ASSUME fresh' PROVE Holds(1)'
  <2>1. fresh /\ own' = own
    BY <1>8, NoOfferTyped DEF InitiatorStays
  <2>2. Holds(1) /\ floor \in Tokens
    BY <1>1, <2>1 DEF Backed, InOrder
  <2> QED BY <1>6, <2>2, TimeoutTypes
<1>9. Backed'
  BY <1>7, <1>8 DEF Backed
<1> QED BY <1>2, <1>4, <1>9 DEF HeldInv

\* The worker and the traffic, with what they add to lost.
LEMMA WorksStep ==
    ASSUME HeldInv, Works
    PROVE  HeldInv'
<1>1. Inv /\ InOrder /\ SessionTypeOK /\ lost \subseteq Tokens /\ Loses
  BY DEF HeldInv, Works, HandshakeTypeOK, Inv
<1>2. WorkerStays /\ adopted' = adopted /\ (KeepsNewest \/ LetsNewest) /\ Inv'
  <2>1. CASE Handles
    <3>1. CASE TurnsStale \/ RefusesOffer
      BY <1>1, <3>1, WorkerGivesUp, TurnsStaleStep, RefusesOfferStep DEF TurnsStale, RefusesOffer
    <3>2. CASE Stages("bound")
      BY <1>1, <3>2, StagesHolds, StagesStep DEF Bindings, Stages
    <3>3. CASE ServesAgain("bound")
      BY <1>1, <3>3, ServesAgainHolds, ServesAgainStep DEF Bindings, ServesAgain
    <3>4. CASE Posts("accepted", TRUE)
      BY <1>1, <3>4, PostsHolds, PostsStep DEF Posts
    <3>5. CASE Commits
      BY <1>1, <3>5, CommitsHolds, CommitsStep DEF Commits
    <3> QED BY <2>1, <3>1, <3>2, <3>3, <3>4, <3>5 DEF Handles
  <2>2. CASE Uses
    <3>1. CASE own # NoKey /\ (Receives(own.token) \/ ProbeConfirms(own.token))
      <4>1. own.token \in Tokens
        BY <1>1, <3>1 DEF InOrder
      <4> QED BY <1>1, <3>1, <4>1, PacketHolds, ReceivesStep, ProbeConfirmsHolds, ProbeConfirmsStep
              DEF Receives
    <3>2. CASE Promotes
      BY <1>1, <3>2, PromotesHolds, PromotesStep
    <3> QED BY <2>2, <3>1, <3>2 DEF Uses
  <2>3. CASE Prunes
    <3>1. KeepsNewest /\ WorkerStays
      BY <1>1, <2>3, PruneKeeps DEF Prunes, Becomes, WorkerStays, busy, published, admitted
    <3> QED BY <1>1, <2>3, <3>1, PrunesStep DEF Prunes
  <2> QED BY <2>1, <2>2, <2>3 DEF Works
<1>3. Accounted /\ lost \subseteq lost' /\ lost' \subseteq Tokens
  BY <1>1, <1>2, LosesAccounts, LosesTypes
<1>4. InitiatorStays
  BY DEF Works, initiator, InitiatorStays, HeldInv, HandshakeTypeOK
<1> QED BY <1>2, <1>3, <1>4, HeldByStep

LEMMA OldPacketStep ==
    ASSUME HeldInv, OldPacket
    PROVE  HeldInv'
<1>1. Inv /\ InOrder /\ SessionTypeOK /\ lost \subseteq Tokens /\ Loses
  BY DEF HeldInv, OldPacket, HandshakeTypeOK, Inv
<1>2. PICK t \in adopted : Receives(t) \/ ProbeConfirms(t)
  BY DEF OldPacket
<1>3. t \in Tokens
  BY <1>1 DEF SessionTypeOK
<1>4. WorkerStays /\ adopted' = adopted /\ (KeepsNewest \/ LetsNewest) /\ Inv'
  BY <1>1, <1>2, <1>3, PacketHolds, ReceivesStep, ProbeConfirmsHolds, ProbeConfirmsStep DEF Receives
<1>5. Accounted /\ lost \subseteq lost' /\ lost' \subseteq Tokens
  BY <1>1, <1>4, LosesAccounts, LosesTypes
<1>6. faults' \in 0..MaxMishaps
  BY TimeoutTypes DEF OldPacket, Fault, HeldInv, HandshakeTypeOK
<1>7. InitiatorStays
  BY <1>6 DEF OldPacket, initiator, InitiatorStays, HeldInv, HandshakeTypeOK
<1> QED BY <1>4, <1>5, <1>7, HeldByStep

\* The offer comes again: it is the one at the floor.
LEMMA RetryStep ==
    ASSUME HeldInv, RepeatsAmbiguous \/ AsksForRetry \/ AnswersBadly
    PROVE  HeldInv'
<1>1. /\ Inv /\ InOrder /\ SessionTypeOK /\ lost \subseteq Tokens /\ offers \subseteq Tokens
      /\ lost' = lost /\ mine' = mine /\ own' = own /\ offered' = offered
  BY DEF HeldInv, HandshakeTypeOK, Inv, RepeatsAmbiguous, AsksForRetry, AnswersBadly, initiator
<1>2. WorkerStays /\ KeepsNewest /\ Inv'
  <2>1. CASE RepeatsAmbiguous
    BY <1>1, <2>1, RetriesHolds, RetriesStep DEF RepeatsAmbiguous
  <2>2. CASE AsksForRetry
    <3>1. CASE StageTimesOut
      BY <1>1, <3>1, WorkerGivesUp, StageTimesOutStep
    <3>2. CASE Stages("contended")
      BY <1>1, <3>2, StagesHolds, StagesStep DEF Bindings
    <3>3. CASE ServesAgain("contended")
      BY <1>1, <3>3, ServesAgainHolds, ServesAgainStep DEF Bindings
    <3>4. CASE Retries
      BY <1>1, <3>4, RetriesHolds, RetriesStep
    <3> QED BY <2>2, <3>1, <3>2, <3>3, <3>4 DEF AsksForRetry
  <2>3. CASE AnswersBadly
    <3>1. CASE Stages("refused")
      BY <1>1, <3>1, StagesHolds, StagesStep DEF Bindings
    <3>2. ASSUME NEW out \in BOOLEAN, Posts("ambiguous", out)
          PROVE  WorkerStays /\ KeepsNewest /\ Inv'
      BY <1>1, <3>2, PostsHolds, PostsStep
    <3> QED BY <2>3, <3>1, <3>2 DEF AnswersBadly
  <2> QED BY <2>1, <2>2, <2>3
<1>3. faults' \in 0..MaxMishaps
  BY TimeoutTypes DEF RepeatsAmbiguous, AsksForRetry, AnswersBadly, Fault, HeldInv, HandshakeTypeOK
<1>4. offers' = offers \/ (offers' = offers \cup {answerer.token} /\ busy)
  BY DEF RepeatsAmbiguous, AsksForRetry, AnswersBadly, initiator, busy, StageTimesOut, Stages,
         ServesAgain
<1>5. /\ offers' \subseteq Tokens
      /\ \A t \in offers' : t \in offers \/ (floor <= t /\ t <= offered)
  <2>1. CASE offers' = offers
    BY <1>1, <2>1
  <2>2. CASE offers' = offers \cup {answerer.token} /\ busy
    <3>1. answerer.token = floor /\ floor \in Tokens /\ floor <= offered
      BY <1>1, <2>2, WorksOnNewest DEF InOrder
    <3>2. floor <= floor
      BY <3>1, GraceTypes
    <3> QED BY <1>1, <2>2, <3>1, <3>2
  <2> QED BY <1>4, <2>1, <2>2
<1>6. InitiatorStays
  BY <1>1, <1>3, <1>5 DEF InitiatorStays
<1>7. Accounted
  BY <1>2 DEF Accounted
<1> QED BY <1>1, <1>2, <1>6, <1>7, HeldByStep

LEMMA OthersStep ==
    ASSUME HeldInv, Retransmits \/ OfferLost \/ NetworkMoves \/ InitiatorMoves \/ InitiatorRetires
    PROVE  HeldInv'
<1>1. /\ Inv /\ InOrder /\ SessionTypeOK /\ lost \subseteq Tokens /\ offers \subseteq Tokens
      /\ lost' = lost /\ offered' = offered
  BY DEF HeldInv, HandshakeTypeOK, Inv, Retransmits, OfferLost, NetworkMoves, InitiatorMoves,
         InitiatorRetires, initiator
<1>2. UNCHANGED sessionVars \/ NetworkChanges
  BY DEF Retransmits, OfferLost, NetworkMoves, InitiatorMoves, InitiatorRetires
<1>3. Inv' /\ keys' = keys
  BY <1>1, <1>2, StutterInv, NetworkChangesStep DEF sessionVars, NetworkChanges
<1>4. KeepsNewest /\ Accounted
  BY <1>1, <1>3, SameKeeps DEF Accounted
<1>5. WorkerStays
  <2>1. CASE UNCHANGED sessionVars
    BY <2>1 DEF sessionVars, WorkerStays, busy, published, admitted
  <2>2. CASE NetworkChanges
    BY <1>1, <2>2 DEF NetworkChanges, WorkerStays, busy, published, admitted, SessionTypeOK
  <2> QED BY <1>2, <2>1, <2>2
<1>6. faults' \in 0..MaxMishaps
  BY TimeoutTypes DEF Retransmits, OfferLost, NetworkMoves, InitiatorMoves, InitiatorRetires,
     Fault, HeldInv, HandshakeTypeOK
<1>7. mine' \in {mine, NoOffer} /\ own' \in {own, NoKey}
  BY DEF Retransmits, OfferLost, NetworkMoves, InitiatorMoves, InitiatorRetires, initiator
<1>8. offers' \subseteq offers \/ (offers' = offers \cup {mine.token} /\ mine # NoOffer)
  BY DEF Retransmits, OfferLost, NetworkMoves, InitiatorMoves, InitiatorRetires, initiator
<1>9. /\ offers' \subseteq Tokens
      /\ \A t \in offers' : t \in offers \/ (floor <= t /\ t <= offered)
  <2>1. mine # NoOffer => mine.token \in Tokens /\ mine.token = offered /\ floor <= offered
    BY <1>1 DEF InOrder
  <2>2. \A t \in Tokens : t <= t
    BY GraceTypes
  <2> QED BY <1>1, <1>8, <2>1, <2>2
<1>10. InitiatorStays
  BY <1>1, <1>6, <1>7, <1>9 DEF InitiatorStays
<1> QED BY <1>1, <1>3, <1>4, <1>5, <1>10, HeldByStep

LEMMA RejectsStep == ASSUME HeldInv, NEW t \in Tokens, Rejects(t) PROVE HeldInv'
<1>1. /\ Inv /\ SessionTypeOK /\ lost \subseteq Tokens /\ offers \subseteq Tokens
      /\ UNCHANGED <<sessionVars, mine, own, offered, lost, faults>> /\ offers' \subseteq offers
  BY DEF HeldInv, HandshakeTypeOK, Inv, Rejects
<1>2. Inv' /\ keys' = keys
  BY <1>1, StutterInv DEF sessionVars
<1>3. Accounted
  BY <1>1, <1>2, SameKeeps DEF Accounted
<1>4. WorkerStays
  BY <1>1 DEF sessionVars, WorkerStays, busy, published, admitted
<1>5. InitiatorStays
  BY <1>1 DEF InitiatorStays, HeldInv, HandshakeTypeOK
<1> QED BY <1>1, <1>2, <1>3, <1>4, <1>5, HeldByStep

\* A new offer is for a key the other end does not have yet.
LEMMA OffersStep == ASSUME HeldInv, NEW t \in Tokens, Offers(t) PROVE HeldInv'
<1> USE DEF fresh
<1>1. /\ Inv /\ HandshakeTypeOK /\ InOrder /\ Backed
      /\ mine = NoOffer /\ t > offered /\ mine' = [token |-> t, left |-> InitiatorTimeout]
      /\ offers' = offers \cup {t} /\ offered' = t
      /\ UNCHANGED <<sessionVars, own, lost, faults>>
  BY DEF HeldInv, Offers
<1>2. Inv' /\ UNCHANGED <<keys, floor, answerer, answered>>
  BY <1>1, StutterInv DEF sessionVars
<1>3. \A u \in Tokens \cup {None} : u \in Int
  BY GraceTypes
<1>4. floor \in Int /\ offered \in Int /\ t \in Int /\ floor <= offered /\ floor < t
  <2>1. floor \in Tokens \cup {None} /\ offered \in Tokens \cup {None}
    BY <1>1 DEF HandshakeTypeOK, SessionTypeOK
  <2>2. floor <= offered
    BY <1>1 DEF InOrder
  <2> QED BY <1>1, <1>3, <2>1, <2>2
<1>5. ~fresh
  <2>1. own = NoKey \/ own.age >= RekeyAfter
    BY DEF Offers
  <2> QED BY <2>1, TimeoutTypes
<1>6. InOrder'
  <2>1. mine'.token = t /\ mine'.left > 0
    BY <1>1, TimeoutTypes
  <2>2. ASSUME NEW u \in offers' PROVE floor <= u /\ u <= t
    <3>1. CASE u = t
      BY <1>4, <3>1
    <3>2. CASE u \in offers
      <4>1. floor <= u /\ u <= offered /\ u \in Tokens
        BY <1>1, <3>2 DEF InOrder, HandshakeTypeOK
      <4> QED BY <1>1, <1>3, <1>4, <4>1
    <3> QED BY <1>1, <2>2, <3>1, <3>2
  <2> QED BY <1>1, <1>2, <1>4, <1>5, <2>1, <2>2 DEF InOrder, busy
<1>7. InitiatorTyped'
  BY <1>1, TimeoutTypes DEF HandshakeTypeOK, InitiatorTyped
<1>8. HandshakeTypeOK'
  BY <1>2, <1>6, <1>7, TypedFromOrder
<1>9. mine'.token # floor' /\ ~fresh'
  BY <1>1, <1>2, <1>4, <1>5
<1> QED BY <1>2, <1>6, <1>8, <1>9 DEF HeldInv, Backed

\* The answer it takes is the newest; its key has been pending all along.
LEMMA TakesAnswerStep == ASSUME HeldInv, TakesAnswer PROVE HeldInv'
<1> USE DEF fresh
<1>1. /\ Inv /\ HandshakeTypeOK /\ InOrder /\ Backed
      /\ mine # NoOffer /\ mine' = NoOffer /\ own' = [token |-> mine.token, age |-> 0]
      /\ PeerAdopts(mine.token) /\ mine.token \in answered /\ mine.token = floor
      /\ UNCHANGED <<offers, offered, lost, faults>>
      /\ UNCHANGED <<keys, floor, answerer>>
  BY DEF HeldInv, TakesAnswer, PeerAdopts
<1>2. mine.token \in Tokens /\ mine.left > 0 /\ mine.token = offered /\ mine.left \in 0..InitiatorTimeout
  BY <1>1 DEF InOrder, HandshakeTypeOK
<1>3. Inv'
  BY <1>1, <1>2, PeerAdoptsStep
<1>4. own'.token = mine.token /\ own'.age = 0
  BY <1>1
<1>5. InOrder'
  BY <1>1, <1>2, <1>4 DEF InOrder, busy
<1>6. InitiatorTyped'
  BY <1>1, <1>2, NoOfferTyped, TimeoutTypes DEF HandshakeTypeOK, InitiatorTyped
<1>7. HandshakeTypeOK'
  BY <1>3, <1>5, <1>6, TypedFromOrder
<1>8. Holds(mine.left)
  BY <1>1 DEF Backed
<1>9. keys.pending[floor] \in Int
  BY <1>1, <1>2, Types DEF Inv
<1>10. Holds(1)'
  BY <1>1, <1>2, <1>8, <1>9, TimeoutTypes DEF Holds
<1> QED BY <1>1, <1>3, <1>5, <1>7, <1>10 DEF HeldInv, Backed

\* What is admitted is a repetition of the newest offer, or newer still.
LEMMA TakesStep == ASSUME HeldInv, NEW t \in Tokens, Takes(t) PROVE HeldInv'
<1> USE DEF fresh
<1>1. /\ Inv /\ HandshakeTypeOK /\ InOrder /\ Backed
      /\ t \in offers /\ Admits(t) /\ offers' = offers \ {t}
      /\ \A u \in offers : t <= u
      /\ UNCHANGED <<mine, own, offered, lost, faults>>
      /\ UNCHANGED <<keys, answered>>
  BY DEF HeldInv, Takes, Admits, first
<1>2. Inv' /\ ~published' /\ answerer'.token = t
  BY <1>1, AdmitsStep DEF Admits, published, admitted
<1>3. \A u \in Tokens \cup {None} : u \in Int
  BY GraceTypes
<1>4. /\ floor \in Tokens \cup {None} /\ offered \in Tokens \cup {None}
      /\ floor <= t /\ t <= offered /\ floor <= offered
  BY <1>1 DEF HandshakeTypeOK, SessionTypeOK, InOrder
<1>5. floor' = t /\ (t # floor => t \notin answered)
  <2>1. CASE cache[t] > 0 /\ floor' = floor
    <3>1. t <= floor
      BY <1>1, <2>1 DEF Inv, Floored
    <3> QED BY <1>3, <1>4, <2>1, <3>1
  <2>2. CASE t > floor /\ floor' = t
    <3>1. \A u \in answered : u <= floor
      BY <1>1 DEF Inv, Floored, SessionTypeOK
    <3> QED BY <1>3, <1>4, <2>2, <3>1
  <2> QED BY <1>1, <2>1, <2>2 DEF Admits
<1>6. fresh => t = floor
  BY <1>1, <1>3, <1>4 DEF InOrder
<1>7. InOrder'
  BY <1>1, <1>2, <1>4, <1>5, <1>6 DEF InOrder
<1>8. InitiatorTyped'
  BY <1>1 DEF HandshakeTypeOK, InitiatorTyped
<1>9. HandshakeTypeOK'
  BY <1>2, <1>7, <1>8, TypedFromOrder
<1>10. ASSUME mine' # NoOffer, mine'.token = floor', floor' \in answered'
       PROVE  Holds(mine.left)'
  BY <1>1, <1>5, <1>10 DEF Backed, Holds
<1>11. fresh' => Holds(1)'
  BY <1>1, <1>5, <1>6 DEF Backed, Holds
<1> QED BY <1>1, <1>2, <1>7, <1>9, <1>10, <1>11 DEF HeldInv, Backed

\* The answering end loses the peer: everything answered so far is lost.
LEMMA AnswererRetiresStep == ASSUME HeldInv, AnswererRetires PROVE HeldInv'
<1> USE DEF fresh
<1>1. /\ Inv /\ HandshakeTypeOK /\ InOrder /\ SessionTypeOK
      /\ PeerRetired /\ lost' = lost \cup {t \in Tokens : t <= floor}
      /\ UNCHANGED <<mine, own, offers, offered, floor>> /\ answerer' = NoWork
  BY DEF HeldInv, AnswererRetires, PeerRetired, initiator, Inv
<1>2. Inv'
  BY <1>1, PeerRetiredStep
<1>3. InOrder'
  BY <1>1 DEF InOrder, busy, NoWork
<1>4. faults' \in 0..MaxMishaps
  BY <1>1, TimeoutTypes DEF AnswererRetires, Fault, HandshakeTypeOK
<1>5. InitiatorTyped'
  BY <1>1, <1>4 DEF HandshakeTypeOK, InitiatorTyped
<1>6. HandshakeTypeOK'
  BY <1>2, <1>3, <1>5, TypedFromOrder
<1>7. ASSUME floor \in Tokens PROVE \A n : Holds(n)'
  <2>1. floor <= floor
    BY <1>7, GraceTypes
  <2> QED BY <1>1, <1>7, <2>1 DEF Holds
<1>8. (mine' # NoOffer /\ mine'.token = floor') \/ fresh' => floor \in Tokens
  BY <1>1 DEF InOrder
<1> QED BY <1>2, <1>3, <1>6, <1>7, <1>8 DEF HeldInv, Backed

\* Its patience and the key's grace run out together.
LEMMA TimePassesStep == ASSUME HeldInv, TimePasses PROVE HeldInv'
<1> USE DEF fresh
<1>1. /\ Inv /\ HandshakeTypeOK /\ InOrder /\ Backed /\ SessionTypeOK /\ Tick
      /\ UNCHANGED <<offers, offered, lost, faults, floor, answerer, answered>>
      /\ mine' = IF mine.left > 1 THEN [mine EXCEPT !.left = @ - 1] ELSE NoOffer
      /\ own' = IF own # NoKey /\ own.age < RekeyAfter THEN [own EXCEPT !.age = @ + 1] ELSE own
  BY DEF HeldInv, TimePasses, Inv, Tick
<1>2. Inv'
  BY <1>1, TickStep
<1>3. /\ mine.left \in 0..InitiatorTimeout /\ own.age \in 0..RekeyAfter
      /\ mine \in [token : Tokens \cup {None}, left : 0..InitiatorTimeout]
      /\ own \in [token : Tokens \cup {None}, age : 0..RekeyAfter]
  BY <1>1 DEF HandshakeTypeOK
<1>4. /\ mine' \in [token : Tokens \cup {None}, left : 0..InitiatorTimeout]
      /\ own' \in [token : Tokens \cup {None}, age : 0..RekeyAfter]
  BY <1>1, <1>3, NoOfferTyped, TimeoutTypes
<1>5. mine' = NoOffer \/ (/\ mine.left > 1 /\ mine'.left = mine.left - 1 /\ mine'.token = mine.token
                          /\ mine # NoOffer)
  BY <1>1, <1>3, NoOfferTyped
<1>6. own'.token = own.token /\ (own' = NoKey => own = NoKey) /\ ~fresh' /\ (own = NoKey => own' = NoKey)
  <2>1. CASE own # NoKey /\ own.age < RekeyAfter
    <3>1. own'.token = own.token /\ own'.age = own.age + 1
      BY <1>1, <1>3, <2>1
    <3>2. own'.age > 0
      BY <1>3, <3>1
    <3> QED BY <2>1, <3>1, <3>2, NoOfferTyped
  <2>2. CASE own = NoKey
    BY <1>1, <2>2
  <2>3. CASE own # NoKey /\ ~(own.age < RekeyAfter)
    BY <1>1, <1>3, <2>3, TimeoutTypes
  <2> QED BY <2>1, <2>2, <2>3
<1>7. InOrder'
  <2>1. mine' = NoOffer \/ (mine'.token \in Tokens /\ mine'.left > 0 /\ mine'.token = offered)
    BY <1>1, <1>3, <1>5 DEF InOrder
  <2> QED BY <1>1, <1>6, <2>1 DEF InOrder, busy
<1>8. HandshakeTypeOK'
  <2>1. InitiatorTyped'
    BY <1>1, <1>4 DEF HandshakeTypeOK, InitiatorTyped
  <2> QED BY <1>2, <1>7, <2>1, TypedFromOrder
<1>9. ASSUME mine' # NoOffer, mine'.token = floor', published' \/ floor' \in answered'
      PROVE  Holds(mine.left)'
  <2>1. mine # NoOffer /\ mine.token = floor /\ mine.left > 1 /\ mine'.left = mine.left - 1
        /\ floor \in Tokens /\ (published \/ floor \in answered)
    BY <1>1, <1>5, <1>9 DEF InOrder, published, busy, admitted
  <2>2. Holds(mine.left)
    BY <1>1, <2>1 DEF Backed
  <2>3. keys'.active = keys.active /\ keys'.pending[floor] = passed(keys.pending[floor])
    BY <1>1, <2>1 DEF Tick, SessionTypeOK, Sessions
  <2>4. keys.pending[floor] \in Int
    BY <1>1, <2>1, Types
  <2>5. keys.pending[floor] >= mine.left => keys'.pending[floor] >= mine'.left
    BY <1>3, <2>1, <2>3, <2>4 DEF passed
  <2> QED BY <1>1, <2>2, <2>3, <2>5 DEF Holds
<1> QED BY <1>2, <1>6, <1>7, <1>8, <1>9 DEF HeldInv, Backed

LEMMA InitHeld == HandshakeInit => HeldInv
<1> SUFFICES ASSUME HandshakeInit PROVE HeldInv
  OBVIOUS
<1>1. Inv /\ SessionTypeOK /\ answerer.pc = "idle" /\ answered = {} /\ floor = 0
  BY InitInv DEF HandshakeInit, SessionInit, NoWork, Inv
<1>2. HandshakeTypeOK
  BY <1>1, NoOfferTyped, TimeoutTypes DEF HandshakeInit, HandshakeTypeOK
<1>3. InOrder /\ Backed
  BY <1>1, GraceTypes DEF HandshakeInit, InOrder, Backed, fresh, busy
<1> QED BY <1>1, <1>2, <1>3 DEF HeldInv

LEMMA NextHeld == ASSUME HeldInv, [HandshakeNext]_allVars PROVE HeldInv'
<1>1. CASE HandshakeNext
  BY <1>1, OffersStep, TakesStep, RejectsStep, OthersStep, TakesAnswerStep, WorksStep, RetryStep,
     OldPacketStep, AnswererRetiresStep, TimePassesStep DEF HandshakeNext
<1>2. CASE UNCHANGED allVars
  <2>1. Inv'
    BY <1>2, StutterInv DEF allVars, HeldInv
  <2> QED BY <1>2, <2>1 DEF allVars, initiator, sessionVars, HeldInv, HandshakeTypeOK, SessionTypeOK,
             InOrder, Backed, Holds, fresh, busy, published, admitted
<1> QED BY <1>1, <1>2

-----------------------------------------------------------------------------

\* Two peers that agree on keys take the answering end only through its own
\* steps, so what is proved of it holds for them.
THEOREM HandshakesAreSessions == HandshakeSpec => SessionSpec
<1>1. HandshakeInit => SessionInit
  BY DEF HandshakeInit
<1>2. HeldInv /\ [HandshakeNext]_allVars => [SessionNext]_sessionVars
  <2> SUFFICES ASSUME HeldInv, [HandshakeNext]_allVars PROVE [SessionNext]_sessionVars
    OBVIOUS
  <2>1. own # NoKey => own.token \in Tokens
    BY DEF HeldInv, InOrder
  <2>2. mine # NoOffer => mine.token \in Tokens
    BY DEF HeldInv, InOrder
  <2>3. adopted \subseteq Tokens
    BY DEF HeldInv, Inv, SessionTypeOK
  <2>4. CASE UNCHANGED allVars
    BY <2>4 DEF allVars
  <2>5. CASE HandshakeNext
    <3>1. CASE \E t \in Tokens : Offers(t) \/ Takes(t) \/ Rejects(t)
      BY <3>1 DEF Offers, Takes, Rejects, SessionNext
    <3>2. CASE Retransmits \/ OfferLost \/ InitiatorMoves \/ InitiatorRetires
      BY <3>2 DEF Retransmits, OfferLost, InitiatorMoves, InitiatorRetires
    <3>3. CASE TakesAnswer
      BY <2>2, <3>3 DEF TakesAnswer, SessionNext
    <3>4. CASE Works
      <4>1. CASE Handles
        BY <4>1 DEF Handles, SessionNext, Bindings
      <4>2. CASE Uses \/ Prunes
        BY <2>1, <4>2 DEF Uses, SessionNext
      <4> QED BY <3>4, <4>1, <4>2 DEF Works
    <3>5. CASE RepeatsAmbiguous \/ AsksForRetry \/ AnswersBadly
      BY <3>5 DEF RepeatsAmbiguous, AsksForRetry, AnswersBadly, SessionNext, Bindings
    <3>6. CASE OldPacket
      BY <2>3, <3>6 DEF OldPacket, SessionNext
    <3>7. CASE NetworkMoves \/ AnswererRetires \/ TimePasses
      BY <3>7 DEF NetworkMoves, AnswererRetires, TimePasses, SessionNext
    <3> QED BY <2>5, <3>1, <3>2, <3>3, <3>4, <3>5, <3>6, <3>7 DEF HandshakeNext
  <2> QED BY <2>4, <2>5
<1>3. HeldInv /\ [HandshakeNext]_allVars => HeldInv'
  BY NextHeld
<1> QED BY InitHeld, <1>1, <1>2, <1>3, PTL DEF HandshakeSpec, SessionSpec

\* An initiator never installs a key its peer does not hold
\* (transport/sessions.rs:528): the key of an answer it takes is active or
\* pending at the other end, unless that end let it go for a named reason.
THEOREM NoKeyIsOrphaned == HandshakeSpec => []InstalledKeyIsHeld
<1>1. HeldInv => InstalledKeyIsHeld
  <2> SUFFICES ASSUME HeldInv, own # NoKey, own.age = 0, own.token \notin lost
               PROVE  keys.active = own.token \/ keys.pending[own.token] > 0
    BY DEF HeldInv, InstalledKeyIsHeld
  <2>1. own.token = floor /\ floor \in Tokens /\ Holds(1)
    BY DEF HeldInv, InOrder, Backed, fresh
  <2>2. keys.pending[floor] \in Int
    BY <2>1, Types DEF HeldInv, Inv
  <2> QED BY <2>1, <2>2 DEF Holds
<1>2. HeldInv /\ [HandshakeNext]_allVars => HeldInv'
  BY NextHeld
<1> QED BY InitHeld, <1>1, <1>2, PTL DEF HandshakeSpec

=============================================================================
