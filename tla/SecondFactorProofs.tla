------------------------- MODULE SecondFactorProofs -------------------------
(***************************************************************************)
(* Proofs about SecondFactor, for any number of calls, losses and reloads, *)
(* and handlers that overlap in any way.                                   *)
(***************************************************************************)
EXTENDS SecondFactor, FiniteSetTheorems, TLAPS

Rows == [enabled : BOOLEAN, secret : Nat]
Stages == {"none", "sent", "read", "ok", "error"}
Calls == [op : {"none", "setup", "enable", "disable"}, code : Int, stage : Stages,
          mine : BOOLEAN, seen : Rows]
Cards == [setup : Int, dialog : BOOLEAN, busy : BOOLEAN, enabled : BOOLEAN]

\* The empty call and the reset row are values of their types.
LEMMA Blanks == NoCall \in Calls /\ NoRow \in Rows
BY DEF NoCall, NoRow, Calls, Rows, Stages, WrongCode, NoSecret

\* Unheard answers are forgotten, handlers under way go on.
LEMMA UnheardKeeps ==
    ASSUME NEW k \in Calls
    PROVE  /\ Unheard(k) \in Calls
           /\ Unheard(k).stage = "read" => k.stage = "read" /\ Unheard(k).seen = k.seen
BY Blanks DEF Unheard, Calls, Stages, NoCall

-----------------------------------------------------------------------------
(* The inductive invariant.  That no more secrets are made than calls were sent needs a  *)
(* count: each call for a secret that no handler has ended may still make  *)
(* one.  That the card is busy for one call needs to know whose answer is  *)
(* under way.                                                              *)

Pending == {c \in CallIds : call[c].op = "setup" /\ call[c].stage \in {"sent", "read"}}

CountInv ==
    /\ row \in Rows /\ made \in Nat /\ row.secret <= made
    /\ proved \subseteq 1 .. made
    /\ calls \in 0 .. MaxCalls /\ IsFiniteSet(Pending)
    /\ made + Cardinality(Pending) <= calls
CardInv ==
    /\ card \in Cards /\ card.setup \in 0 .. made /\ shown \subseteq 1 .. made
    /\ \A c, d \in CallIds : Waiting(c) /\ Waiting(d) => c = d /\ card.busy
\* What an answer or an earlier read carries is of the past.
Past(k, n) ==
    /\ k.seen.secret <= n
    /\ k.stage \in {"ok", "error"} => k.mine
    /\ k.stage = "ok" /\ k.op = "setup" => k.code \in 1 .. n
CallInv ==
    /\ call \in [CallIds -> Calls]
    /\ \A c \in CallIds : Past(call[c], made)

TInv == CountInv /\ CardInv /\ CallInv

\* The empty call waits for nothing and brings nothing.
LEMMA EmptyCall ==
    /\ NoCall \in Calls /\ NoCall.stage = "none" /\ ~NoCall.mine
    /\ \A n \in Nat : Past(NoCall, n)
BY Blanks DEF NoCall, NoRow, NoSecret, Past

LEMMA TypesInitially == FactorInit => TInv
<1> SUFFICES ASSUME FactorInit PROVE TInv  OBVIOUS
<1>1. call = [c \in CallIds |-> NoCall] /\ row = NoRow /\ made = 0 /\ proved = {}
      /\ card = NewCard(FALSE) /\ calls = 0 /\ shown = {}
  BY DEF FactorInit
<1>2. \A c \in CallIds : call[c] = NoCall  BY <1>1
<1>3. Pending = {}  BY <1>2, EmptyCall DEF Pending
<1>4. CountInv
  <2>1. row \in Rows /\ row.secret = 0  BY <1>1, Blanks DEF NoRow, NoSecret
  <2>2. MaxCalls \in Nat  BY FactorAssumption
  <2> QED  BY <1>1, <1>3, <2>1, <2>2, FS_EmptySet DEF CountInv
<1>5. CardInv
  BY <1>1, <1>2, EmptyCall DEF CardInv, NewCard, NoSecret, Cards, Waiting
<1>6. CallInv  BY <1>1, <1>2, EmptyCall DEF CallInv
<1> QED  BY <1>4, <1>5, <1>6 DEF TInv

\* The calls that may still make a secret are counted.
LEMMA PendingCounts ==
    ASSUME IsFiniteSet(Pending), NEW c \in CallIds
    PROVE  /\ Pending' = Pending => IsFiniteSet(Pending') /\ Cardinality(Pending') = Cardinality(Pending)
           /\ c \notin Pending /\ Pending' = Pending \cup {c} =>
                IsFiniteSet(Pending') /\ Cardinality(Pending') = Cardinality(Pending) + 1
           /\ c \in Pending /\ Pending' = Pending \ {c} =>
                IsFiniteSet(Pending') /\ Cardinality(Pending') = Cardinality(Pending) - 1
           /\ Cardinality(Pending) \in Nat
<1>1. Cardinality(Pending) \in Nat  BY FS_CardinalityType
<1>2. c \notin Pending /\ Pending' = Pending \cup {c} =>
        IsFiniteSet(Pending') /\ Cardinality(Pending') = Cardinality(Pending) + 1
  BY FS_AddElement
<1>3. c \in Pending /\ Pending' = Pending \ {c} =>
        IsFiniteSet(Pending') /\ Cardinality(Pending') = Cardinality(Pending) - 1
  BY FS_RemoveElement
<1> QED  BY <1>1, <1>2, <1>3

\* A call changes, what it may still make does not.
LEMMA SamePending ==
    ASSUME CallInv, NEW c \in CallIds, NEW k \in Calls, call' = [call EXCEPT ![c] = k],
           (k.op = "setup" /\ k.stage \in {"sent", "read"}) = (c \in Pending)
    PROVE  Pending' = Pending
<1>1. \A d \in CallIds : call'[d] = IF d = c THEN k ELSE call[d]  BY DEF CallInv
<1> QED  BY <1>1 DEF Pending

\* A handler ends its call: one call less is pending.
LEMMA HandlerStep ==
    ASSUME TInv, NEW c \in CallIds, call[c].stage = "read",
           NEW answer \in Calls, End(c, answer), answer.stage \in {"ok", "error"},
           answer.op = call[c].op, answer.seen = call[c].seen, answer.mine = call[c].mine,
           UNCHANGED <<card, calls, shown>>,
           row' \in Rows, row'.secret <= made', proved' \subseteq 1 .. made',
           made' = made \/ (made' = made + 1 /\ call[c].op = "setup"),
           answer.stage = "ok" /\ answer.op = "setup" => answer.code \in 1 .. made'
    PROVE  TInv'
<1>t. /\ made \in Nat /\ calls \in Nat /\ IsFiniteSet(Pending)
      /\ made + Cardinality(Pending) <= calls
      /\ call \in [CallIds -> Calls] /\ \A d \in CallIds : Past(call[d], made)
  BY DEF TInv, CountInv, CallInv
<1>1. PICK k \in Calls : call' = [call EXCEPT ![c] = k] /\ (k = NoCall \/ (k = answer /\ call[c].mine))
  BY EmptyCall DEF End
<1>2. \A d \in CallIds : call'[d] = IF d = c THEN k ELSE call[d]  BY <1>t, <1>1
<1>3. made' \in Nat /\ made <= made'  BY <1>t
<1>4. k.stage \notin {"sent", "read"}  BY <1>1, EmptyCall
<1>5. Pending' = Pending \ {c}  BY <1>2, <1>4 DEF Pending
<1>6. IsFiniteSet(Pending') /\ made' + Cardinality(Pending') <= calls
  <2>1. CASE c \in Pending
    <3>1. IsFiniteSet(Pending') /\ Cardinality(Pending') = Cardinality(Pending) - 1
          /\ Cardinality(Pending) \in Nat
      BY <2>1, <1>t, <1>5, PendingCounts
    <3> QED  BY <1>t, <3>1
  <2>2. CASE c \notin Pending
    <3>1. Pending' = Pending  BY <2>2, <1>5
    <3>2. made' = made  BY <2>2 DEF Pending
    <3> QED  BY <1>t, <3>1, <3>2
  <2> QED  BY <2>1, <2>2
<1>7. CountInv'  BY <1>3, <1>6 DEF TInv, CountInv
<1>8. CardInv'
  <2>1. \A d \in CallIds : Waiting(d)' => Waiting(d)
    BY <1>1, <1>2, EmptyCall DEF Waiting
  <2>2. card \in Cards /\ card.setup \in 0 .. made' /\ shown' \subseteq 1 .. made'
    BY <1>t, <1>3 DEF TInv, CardInv
  <2> QED  BY <2>1, <2>2 DEF TInv, CardInv
<1>9. CallInv'
  <2>1. \A d \in CallIds : Past(call[d], made')
    <3> TAKE d \in CallIds
    <3>1. call[d] \in Calls /\ Past(call[d], made)  BY <1>t
    <3>2. call[d].seen.secret \in Nat  BY <3>1 DEF Calls, Rows
    <3> QED  BY <1>t, <1>3, <3>1, <3>2 DEF Past
  <2>2. Past(k, made')
    <3>1. CASE k = NoCall  BY <3>1, <1>3, EmptyCall
    <3>2. CASE k = answer /\ call[c].mine  BY <2>1, <3>2 DEF Past
    <3> QED  BY <1>1, <3>1, <3>2
  <2>3. call' \in [CallIds -> Calls]  BY <1>t, <1>1
  <2> QED  BY <1>2, <2>1, <2>2, <2>3 DEF CallInv
<1> QED  BY <1>7, <1>8, <1>9 DEF TInv

LEMMA TypesHandlers ==
    ASSUME TInv, NEW c \in CallIds, Setup(c) \/ Enable(c) \/ Disable(c)
    PROVE  TInv'
<1>t. /\ row \in Rows /\ made \in Nat /\ row.secret <= made /\ proved \subseteq 1 .. made
      /\ call[c] \in Calls /\ Past(call[c], made)
  BY DEF TInv, CountInv, CallInv
<1>1. call[c].stage = "read" /\ UNCHANGED <<card, calls, shown>>  BY DEF Setup, Enable, Disable
<1>2. ASSUME Refused(c) PROVE TInv'
  <2> DEFINE answer == [call[c] EXCEPT !.stage = "error"]
  <2>1. End(c, answer) /\ UNCHANGED <<row, made, proved>>  BY <1>2 DEF Refused
  <2>2. /\ answer \in Calls /\ answer.stage = "error" /\ answer.op = call[c].op
        /\ answer.seen = call[c].seen /\ answer.mine = call[c].mine
    BY <1>t DEF Calls, Stages
  <2> HIDE DEF answer
  <2> QED  BY <1>t, <1>1, <2>1, <2>2, HandlerStep
<1>3. CASE Setup(c) /\ MaySetup(call[c].seen)
  <2> DEFINE answer == [call[c] EXCEPT !.stage = "ok", !.code = made + 1]
  <2>1. /\ End(c, answer) /\ made' = made + 1 /\ row' = [row EXCEPT !.secret = made + 1]
        /\ proved' = proved /\ call[c].op = "setup"
    BY <1>3 DEF Setup
  <2>2. /\ answer \in Calls /\ answer.stage = "ok" /\ answer.op = call[c].op
        /\ answer.seen = call[c].seen /\ answer.mine = call[c].mine /\ answer.code = made + 1
    <3>1. made + 1 \in Int  BY <1>t
    <3> QED  BY <1>t, <3>1 DEF Calls, Stages
  <2>3. row' \in Rows /\ row'.secret = made + 1  BY <1>t, <2>1 DEF Rows
  <2>4. proved' \subseteq 1 .. made' /\ row'.secret <= made' /\ made + 1 \in 1 .. made'
    BY <1>t, <2>1, <2>3
  <2> HIDE DEF answer
  <2> QED  BY <1>1, <2>1, <2>2, <2>3, <2>4, HandlerStep
<1>4. CASE Enable(c) /\ call[c].seen.secret # NoSecret /\ call[c].code = call[c].seen.secret
  <2> DEFINE answer == [call[c] EXCEPT !.stage = "ok"]
  <2>1. /\ End(c, answer) /\ row' = [row EXCEPT !.enabled = @ \/ ~call[c].seen.enabled]
        /\ proved' = proved \cup {call[c].code} /\ made' = made /\ call[c].op = "enable"
    BY <1>4 DEF Enable
  <2>2. /\ answer \in Calls /\ answer.stage = "ok" /\ answer.op = call[c].op
        /\ answer.seen = call[c].seen /\ answer.mine = call[c].mine
    BY <1>t DEF Calls, Stages
  <2>3. call[c].seen \in Rows  BY <1>t DEF Calls
  <2>4. row' \in Rows /\ row'.secret = row.secret  BY <1>t, <2>1, <2>3 DEF Rows
  <2>5. call[c].code \in 1 .. made
    BY <1>4, <1>t, <2>3 DEF Past, Rows, NoSecret
  <2> HIDE DEF answer
  <2> QED  BY <1>1, <1>t, <2>1, <2>2, <2>4, <2>5, HandlerStep
<1>5. CASE Disable(c) /\ call[c].seen.enabled /\ call[c].code = call[c].seen.secret
  <2> DEFINE answer == [call[c] EXCEPT !.stage = "ok"]
  <2>1. /\ End(c, answer) /\ row' = NoRow /\ UNCHANGED <<made, proved>>
        /\ call[c].op = "disable"
    BY <1>5 DEF Disable
  <2>2. /\ answer \in Calls /\ answer.stage = "ok" /\ answer.op = call[c].op
        /\ answer.seen = call[c].seen /\ answer.mine = call[c].mine
    BY <1>t DEF Calls, Stages
  <2>3. row' \in Rows /\ row'.secret = 0  BY <2>1, Blanks DEF NoRow, NoSecret
  <2> HIDE DEF answer
  <2> QED  BY <1>1, <1>t, <2>1, <2>2, <2>3, HandlerStep
<1> QED  BY <1>2, <1>3, <1>4, <1>5 DEF Setup, Enable, Disable

\* A step of one call that leaves the server alone: what is pending stays so.
LEMMA CallStep ==
    ASSUME TInv, NEW c \in CallIds, NEW k \in Calls, call' = [call EXCEPT ![c] = k],
           (k.op = "setup" /\ k.stage \in {"sent", "read"}) = (c \in Pending),
           Past(k, made), UNCHANGED <<row, made, proved, calls>>, CardInv'
    PROVE  TInv'
<1>1. call \in [CallIds -> Calls] /\ \A d \in CallIds : Past(call[d], made)
  BY DEF TInv, CallInv
<1>2. Pending' = Pending  BY SamePending DEF TInv
<1>3. CountInv'  BY <1>2 DEF TInv, CountInv
<1>4. \A d \in CallIds : call'[d] = IF d = c THEN k ELSE call[d]  BY <1>1
<1>5. call' \in [CallIds -> Calls]  BY <1>1
<1>6. CallInv'  BY <1>1, <1>4, <1>5 DEF CallInv
<1> QED  BY <1>3, <1>6 DEF TInv

LEMMA TypesRead ==
    ASSUME TInv, NEW c \in CallIds, Read(c)
    PROVE  TInv'
<1> DEFINE k == [call[c] EXCEPT !.stage = "read", !.seen = row]
<1>1. call \in [CallIds -> Calls] /\ row \in Rows /\ row.secret <= made
  BY DEF TInv, CallInv, CountInv
<1>2. /\ call[c].stage = "sent" /\ call' = [call EXCEPT ![c] = k]
      /\ UNCHANGED <<row, made, proved, shown, card, calls>>
  BY <1>1 DEF Read, Calls
<1>3. /\ k \in Calls /\ k.stage = "read" /\ k.seen = row /\ k.op = call[c].op
      /\ k.mine = call[c].mine
  BY <1>1 DEF Calls, Stages
<1> HIDE DEF k
<1>4. (k.op = "setup" /\ k.stage \in {"sent", "read"}) = (c \in Pending)
  BY <1>2, <1>3 DEF Pending
<1>5. Past(k, made)  BY <1>1, <1>3 DEF Past
<1>6. \A d \in CallIds : Waiting(d)' = Waiting(d)  BY <1>1, <1>2, <1>3 DEF Waiting
<1>7. CardInv'  BY <1>2, <1>6 DEF TInv, CardInv
<1> QED  BY <1>2, <1>3, <1>4, <1>5, <1>7, CallStep

\* A call is sent in an empty place: one more may make a secret, if it asks for one.
LEMMA TypesSent ==
    ASSUME TInv, NEW c \in CallIds, NEW op \in {"setup", "enable", "disable"},
           NEW code \in Int, Sent(op, code, c), UNCHANGED <<row, made, proved, shown>>,
           card' \in Cards, card'.setup = card.setup,
           IF op = "setup" THEN card' = card ELSE ~card.busy /\ card'.busy
    PROVE  TInv'
<1> DEFINE new == [NoCall EXCEPT !.op = op, !.code = code, !.stage = "sent", !.mine = TRUE]
<1>t. /\ made \in Nat /\ calls \in 0 .. MaxCalls /\ IsFiniteSet(Pending)
      /\ made + Cardinality(Pending) <= calls /\ MaxCalls \in Nat
      /\ call \in [CallIds -> Calls] /\ \A d \in CallIds : Past(call[d], made)
  BY FactorAssumption DEF TInv, CountInv, CallInv
<1>1. call[c] = NoCall /\ calls < MaxCalls /\ calls' = calls + 1 /\ call' = [call EXCEPT ![c] = new]
  BY DEF Sent
<1>2. /\ new \in Calls /\ new.op = op /\ new.stage = "sent" /\ new.mine
      /\ new.seen = NoRow
  BY Blanks DEF NoCall, Calls, Stages
<1> HIDE DEF new
<1>3. \A d \in CallIds : call'[d] = IF d = c THEN new ELSE call[d]  BY <1>t, <1>1
<1>4. c \notin Pending  BY <1>1, EmptyCall DEF Pending
<1>5. IsFiniteSet(Pending') /\ made + Cardinality(Pending') <= calls'
  <2>1. CASE op = "setup"
    <3>1. Pending' = Pending \cup {c}  BY <2>1, <1>2, <1>3 DEF Pending
    <3>2. IsFiniteSet(Pending') /\ Cardinality(Pending') = Cardinality(Pending) + 1
          /\ Cardinality(Pending) \in Nat
      BY <3>1, <1>t, <1>4, PendingCounts
    <3> QED  BY <1>t, <1>1, <3>2
  <2>2. CASE op # "setup"
    <3>1. Pending' = Pending  BY <2>2, <1>2, <1>3, <1>4 DEF Pending
    <3>2. Cardinality(Pending) \in Nat  BY <1>t, PendingCounts
    <3> QED  BY <1>t, <1>1, <3>1, <3>2
  <2> QED  BY <2>1, <2>2
<1>6. CountInv'  BY <1>t, <1>1, <1>5 DEF TInv, CountInv
<1>7. CardInv'
  <2>1. \A d \in CallIds : d # c => Waiting(d)' = Waiting(d)  BY <1>3 DEF Waiting
  <2>2. Waiting(c)' = (op # "setup")  BY <1>2, <1>3 DEF Waiting
  <2>3. ~Waiting(c)  BY <1>1, EmptyCall DEF Waiting
  <2> QED  BY <2>1, <2>2, <2>3 DEF TInv, CardInv
<1>8. CallInv'
  <2>1. Past(new, made)  BY <1>2, <1>t DEF Past, NoRow, NoSecret
  <2>2. call' \in [CallIds -> Calls]  BY <1>t, <1>1, <1>2
  <2> QED  BY <1>t, <1>3, <2>1, <2>2 DEF CallInv
<1> QED  BY <1>6, <1>7, <1>8 DEF TInv

\* What an answer makes of the card: a secret it made is shown, and only the
\* answer the card waits for frees it.
LEMMA AfterAnswerIs ==
    ASSUME card \in Cards, NEW ok \in BOOLEAN, NEW secret \in Int,
           NEW op \in {"none", "setup", "enable", "disable"}
    PROVE  LET after == AfterAnswer(ok, op, secret) IN
           /\ after \in Cards
           /\ after.setup = IF ok /\ op = "setup" THEN secret ELSE card.setup
           /\ op = "setup" => after.busy = card.busy
<1>1. CASE op = "setup" /\ ok  BY <1>1 DEF AfterAnswer, Cards
<1>2. CASE op = "setup" /\ ~ok  BY <1>2 DEF AfterAnswer, Cards
<1>3. CASE op # "setup" /\ ok  BY <1>3 DEF AfterAnswer, Cards
<1>4. CASE op # "setup" /\ ~ok  BY <1>4 DEF AfterAnswer, Cards
<1> QED  BY <1>1, <1>2, <1>3, <1>4

\* The answer of a call is heard, or will not be.
LEMMA TypesHeard ==
    ASSUME TInv, NEW c \in CallIds, Answered(c) \/ Lost(c)
    PROVE  TInv'
<1>t. /\ made \in Nat /\ card \in Cards /\ card.setup \in 0 .. made
      /\ call \in [CallIds -> Calls] /\ call[c] \in Calls /\ Past(call[c], made)
      /\ call[c].op \in {"none", "setup", "enable", "disable"} /\ call[c].code \in Int
  BY DEF TInv, CountInv, CardInv, CallInv, Calls
<1>1. PICK ok \in BOOLEAN, secret \in Int, k \in Calls :
        /\ card' = AfterAnswer(ok, call[c].op, secret)
        /\ call' = [call EXCEPT ![c] = k]
        /\ ok /\ call[c].op = "setup" => secret \in 1 .. made
        /\ shown' = shown \/ (ok /\ call[c].op = "setup" /\ shown' = shown \cup {secret})
        /\ ~k.mine /\ Past(k, made)
        /\ (k.op = "setup" /\ k.stage \in {"sent", "read"}) = (c \in Pending)
  <2>1. CASE Answered(c)
    <3> DEFINE ok == call[c].stage = "ok"
    <3>1. ok \in BOOLEAN  OBVIOUS
    <3>2. /\ card' = AfterAnswer(ok, call[c].op, call[c].code)
          /\ call' = [call EXCEPT ![c] = NoCall] /\ call[c].stage \in {"ok", "error"}
      BY <2>1 DEF Answered
    <3>3. ok /\ call[c].op = "setup" => call[c].code \in 1 .. made  BY <1>t DEF Past
    <3>5. shown' = shown \/ (ok /\ call[c].op = "setup" /\ shown' = shown \cup {call[c].code})
      BY <2>1 DEF Answered
    <3>4. (NoCall.op = "setup" /\ NoCall.stage \in {"sent", "read"}) = (c \in Pending)
      BY <3>2, EmptyCall DEF Pending
    <3> HIDE DEF ok
    <3> QED  BY <3>1, <3>2, <3>3, <3>4, <3>5, <1>t, EmptyCall
  <2>2. CASE Lost(c)
    <3>1. /\ card' = AfterAnswer(FALSE, call[c].op, NoSecret)
          /\ call' = [call EXCEPT ![c] = Unheard(call[c])] /\ shown' = shown
      BY <2>2, <1>t DEF Lost
    <3>2. Unheard(call[c]) \in Calls  BY <1>t, UnheardKeeps
    <3>3. ~Unheard(call[c]).mine /\ Past(Unheard(call[c]), made)
      <4>1. CASE call[c].stage \in {"ok", "error"}  BY <4>1, <1>t, EmptyCall DEF Unheard
      <4>2. CASE call[c].stage \notin {"ok", "error"}
        BY <4>2, <1>t DEF Unheard, Past, Calls
      <4> QED  BY <4>1, <4>2
    <3>4. (Unheard(call[c]).op = "setup" /\ Unheard(call[c]).stage \in {"sent", "read"})
            = (c \in Pending)
      <4>1. CASE call[c].stage \in {"ok", "error"}  BY <4>1, EmptyCall DEF Unheard, Pending
      <4>2. CASE call[c].stage \notin {"ok", "error"}
        BY <4>2, <1>t DEF Unheard, Pending, Calls
      <4> QED  BY <4>1, <4>2
    <3>5. NoSecret \in Int  BY DEF NoSecret
    <3> QED  BY <3>1, <3>2, <3>3, <3>4, <3>5
  <2> QED  BY <2>1, <2>2
<1>2. UNCHANGED <<row, made, proved, calls>>  BY DEF Answered, Lost
<1>3. call[c].mine  BY <1>t DEF Answered, Lost, Past
<1>4. /\ card' \in Cards
      /\ card'.setup = IF ok /\ call[c].op = "setup" THEN secret ELSE card.setup
      /\ call[c].op = "setup" => card'.busy = card.busy
  BY <1>t, <1>1, AfterAnswerIs
<1>5. card'.setup \in 0 .. made  BY <1>t, <1>1, <1>4
<1>9. shown' \subseteq 1 .. made
  <2>1. shown \subseteq 1 .. made  BY DEF TInv, CardInv
  <2> QED  BY <1>1, <2>1
<1>6. \A d \in CallIds : Waiting(d)' = (Waiting(d) /\ d # c)  BY <1>t, <1>1 DEF Waiting
<1>7. ASSUME NEW d \in CallIds, NEW e \in CallIds, Waiting(d)', Waiting(e)'
      PROVE  d = e /\ card'.busy
  <2>1. d = e /\ card.busy  BY <1>6, <1>7 DEF TInv, CardInv
  <2>2. call[c].op = "setup"
    <3>1. call[c].op # "setup" => Waiting(c)  BY <1>3 DEF Waiting
    <3> QED  BY <3>1, <1>6, <1>7 DEF TInv, CardInv
  <2> QED  BY <2>1, <2>2, <1>4
<1>8. CardInv'  BY <1>2, <1>4, <1>5, <1>7, <1>9 DEF CardInv
<1> QED  BY <1>1, <1>2, <1>8, CallStep

LEMMA TypesPage ==
    ASSUME TInv, Toggle \/ Reload
    PROVE  TInv'
<1>t. /\ made \in Nat /\ card \in Cards /\ card.setup \in 0 .. made /\ row \in Rows
      /\ call \in [CallIds -> Calls] /\ \A c \in CallIds : Past(call[c], made)
  BY DEF TInv, CountInv, CardInv, CallInv
<1>1. CASE Toggle
  <2>1. card' = [card EXCEPT !.dialog = ~@] /\ UNCHANGED <<row, made, proved, shown, call, calls>>
    BY <1>1 DEF Toggle
  <2>2. card' \in Cards /\ card'.setup = card.setup /\ card'.busy = card.busy
    BY <1>t, <2>1 DEF Cards
  <2>3. Pending' = Pending /\ \A d \in CallIds : Waiting(d)' = Waiting(d)
    BY <2>1 DEF Pending, Waiting
  <2>4. CountInv'  BY <2>1, <2>3 DEF TInv, CountInv
  <2>5. CardInv'  BY <2>1, <2>2, <2>3 DEF TInv, CardInv
  <2>6. CallInv'  BY <2>1 DEF TInv, CallInv
  <2> QED  BY <2>4, <2>5, <2>6 DEF TInv
<1>2. CASE Reload
  <2>1. /\ card' = NewCard(row.enabled) /\ UNCHANGED <<row, made, proved, shown, calls>>
        /\ call' = [c \in CallIds |-> Unheard(call[c])]
    BY <1>2 DEF Reload
  <2>2. card' \in Cards /\ card'.setup = 0
    BY <1>t, <2>1 DEF NewCard, NoSecret, Cards, Rows
  <2>3. ASSUME NEW c \in CallIds
        PROVE  /\ call'[c] \in Calls /\ ~call'[c].mine /\ Past(call'[c], made)
               /\ (c \in Pending') = (c \in Pending)
    <3>1. call'[c] = Unheard(call[c]) /\ call'[c] \in Calls
      BY <1>t, <2>1, UnheardKeeps
    <3>2. CASE call[c].stage \in {"ok", "error"}
      BY <3>1, <3>2, <1>t, EmptyCall DEF Unheard, Pending
    <3>3. CASE call[c].stage \notin {"ok", "error"}
      BY <3>1, <3>3, <1>t DEF Unheard, Pending, Past, Calls
    <3> QED  BY <3>1, <3>2, <3>3
  <2>4. Pending' = Pending  BY <2>3 DEF Pending
  <2>5. CountInv'  BY <2>1, <2>4 DEF TInv, CountInv
  <2>6. CardInv'  BY <1>t, <2>1, <2>2, <2>3 DEF TInv, CardInv, Waiting
  <2>7. CallInv'  BY <2>1, <2>3 DEF CallInv
  <2> QED  BY <2>5, <2>6, <2>7 DEF TInv
<1> QED  BY <1>1, <1>2

LEMMA TypesPreserved == TInv /\ [FactorNext]_factorVars => TInv'
<1> SUFFICES ASSUME TInv, [FactorNext]_factorVars PROVE TInv'  OBVIOUS
<1>t. card \in Cards  BY DEF TInv, CardInv
<1>1. CASE Toggle \/ Reload  BY <1>1, TypesPage
<1>2. ASSUME NEW c \in CallIds, StartSetup(c) PROVE TInv'
  <2>1. Sent("setup", WrongCode, c) /\ UNCHANGED <<row, made, proved, shown, card>>
    BY <1>2 DEF StartSetup
  <2>2. WrongCode \in Int  BY DEF WrongCode
  <2> QED  BY <1>t, <2>1, <2>2, TypesSent
<1>3. ASSUME NEW c \in CallIds, Confirm(c) PROVE TInv'
  <2> DEFINE op == IF card.enabled THEN "disable" ELSE "enable"
  <2>1. PICK code \in shown \cup {WrongCode} : Sent(op, code, c)  BY <1>3 DEF Confirm
  <2>2. /\ ~card.busy /\ card' = [card EXCEPT !.busy = TRUE]
        /\ UNCHANGED <<row, made, proved, shown>>
    BY <1>3 DEF Confirm
  <2>3. code \in Int  BY <2>1 DEF TInv, CardInv, WrongCode
  <2>4. card' \in Cards /\ card'.setup = card.setup /\ card'.busy  BY <1>t, <2>2 DEF Cards
  <2>5. op \in {"setup", "enable", "disable"} /\ op # "setup"  OBVIOUS
  <2> HIDE DEF op
  <2> QED  BY <2>1, <2>2, <2>3, <2>4, <2>5, TypesSent
<1>4. ASSUME NEW c \in CallIds, Answered(c) \/ Lost(c) PROVE TInv'  BY <1>4, TypesHeard
<1>5. ASSUME NEW c \in CallIds, Read(c) PROVE TInv'  BY <1>5, TypesRead
<1>6. ASSUME NEW c \in CallIds, Setup(c) \/ Enable(c) \/ Disable(c) PROVE TInv'
  BY <1>6, TypesHandlers
<1>7. CASE UNCHANGED factorVars
  BY <1>7 DEF factorVars, TInv, CountInv, CardInv, CallInv, Pending, Waiting
<1> QED  BY <1>1, <1>2, <1>3, <1>4, <1>5, <1>6, <1>7 DEF FactorNext

-----------------------------------------------------------------------------
(* The theorems.                                                           *)

\* However the handlers overlap: row, secrets and card keep their types, no
\* more secrets are made than calls were sent, and the card is busy for one call
\* at a time, whatever answers are lost and however often the page is loaded
\* (TwoFactorCard and the three handlers).
THEOREM FactorTyped == FactorSpec => []FactorTypeOK
<1>1. FactorInit => TInv  BY TypesInitially
<1>2. TInv /\ [FactorNext]_factorVars => TInv'  BY TypesPreserved
<1>3. TInv => FactorTypeOK
  <2> SUFFICES ASSUME TInv PROVE FactorTypeOK  OBVIOUS
  <2>1. /\ row \in Rows /\ made \in Nat /\ row.secret <= made /\ proved \subseteq 1 .. made
        /\ calls \in 0 .. MaxCalls /\ made + Cardinality(Pending) <= calls
        /\ IsFiniteSet(Pending) /\ MaxCalls \in Nat
    BY FactorAssumption DEF TInv, CountInv
  <2>2. Cardinality(Pending) \in Nat  BY <2>1, FS_CardinalityType
  <2>3. made \in 0 .. MaxCalls  BY <2>1, <2>2
  <2>4. row \in [enabled : BOOLEAN, secret : 0 .. made]  BY <2>1 DEF Rows
  <2> QED  BY <2>1, <2>3, <2>4 DEF FactorTypeOK, TInv, CardInv
<1> QED  BY <1>1, <1>2, <1>3, PTL DEF FactorSpec


\* A step by a row that is still what its handler read keeps a secret that is
\* asked for confirmed.
LEMMA FreshSteps ==
    ASSUME TInv, ConfirmedUnlessStale, [FactorNext]_factorVars
    PROVE  ConfirmedUnlessStale'
<1>t. row \in Rows  BY DEF TInv, CountInv
<1>1. ASSUME UNCHANGED <<row, proved, stale>> PROVE ConfirmedUnlessStale'
  BY <1>1 DEF ConfirmedUnlessStale
<1>2. CASE Toggle \/ Reload  BY <1>1, <1>2 DEF Toggle, Reload
<1>3. ASSUME NEW c \in CallIds,
             StartSetup(c) \/ Confirm(c) \/ Answered(c) \/ Lost(c) \/ Read(c) \/ Refused(c)
      PROVE  ConfirmedUnlessStale'
  BY <1>1, <1>3 DEF StartSetup, Confirm, Answered, Lost, Read, Refused
<1>4. ASSUME NEW c \in CallIds, Setup(c) PROVE ConfirmedUnlessStale'
  <2>1. CASE ~MaySetup(call[c].seen)  BY <1>3, <1>4, <2>1 DEF Setup
  <2>2. CASE MaySetup(call[c].seen)
    <3>1. row' = [row EXCEPT !.secret = made + 1] /\ (~stale' => row = call[c].seen)
      BY <1>4, <2>2 DEF Setup, Judged
    <3>2. row'.enabled = row.enabled  BY <1>t, <3>1 DEF Rows
    <3>3. ~stale' => ~row.enabled  BY <2>2, <3>1 DEF MaySetup
    <3> QED  BY <3>2, <3>3 DEF ConfirmedUnlessStale
  <2> QED  BY <2>1, <2>2
<1>5. ASSUME NEW c \in CallIds, Enable(c) PROVE ConfirmedUnlessStale'
  <2> DEFINE confirmed == call[c].seen.secret # NoSecret /\ call[c].code = call[c].seen.secret
  <2>1. CASE ~confirmed  BY <1>3, <1>5, <2>1 DEF Enable
  <2>2. CASE confirmed
    <3>1. /\ row' = [row EXCEPT !.enabled = @ \/ ~call[c].seen.enabled]
          /\ call[c].seen.secret \in proved' /\ (~stale' => row = call[c].seen)
      BY <1>5, <2>2 DEF Enable, Judged
    <3>2. row'.secret = row.secret  BY <1>t, <3>1 DEF Rows
    <3> QED  BY <3>1, <3>2 DEF ConfirmedUnlessStale
  <2> QED  BY <2>1, <2>2
<1>6. ASSUME NEW c \in CallIds, Disable(c) PROVE ConfirmedUnlessStale'
  <2>1. Refused(c) \/ row' = NoRow  BY <1>6 DEF Disable
  <2>2. ~NoRow.enabled  BY DEF NoRow
  <2> QED  BY <1>3, <2>1, <2>2 DEF ConfirmedUnlessStale
<1>7. CASE UNCHANGED factorVars  BY <1>1, <1>7 DEF factorVars
<1> QED  BY <1>2, <1>3, <1>4, <1>5, <1>6, <1>7 DEF FactorNext

\* README.md:202, "Enable 2FA (after code confirmation)", however handlers overlap,
\* answers are lost and the page is loaded again: a secret of which no code was shown
\* is asked for only after a setup or an enable was committed by a row that had
\* changed since it was read (setup_2fa, enable_2fa, disable_2fa).
THEOREM ConfirmedIfFresh == FactorSpec => []ConfirmedUnlessStale
<1>1. FactorInit => TInv /\ ConfirmedUnlessStale
  <2>1. FactorInit => ConfirmedUnlessStale  BY DEF FactorInit, NoRow, ConfirmedUnlessStale
  <2> QED  BY <2>1, TypesInitially
<1>2. TInv /\ ConfirmedUnlessStale /\ [FactorNext]_factorVars => TInv' /\ ConfirmedUnlessStale'
  BY TypesPreserved, FreshSteps
<1> QED  BY <1>1, <1>2, PTL DEF FactorSpec
=============================================================================
