---------------------------- MODULE SecondFactor ----------------------------
(***************************************************************************)
(* The two-factor card of the profile page and the three handlers behind   *)
(* it.  A handler decides by the row of the user that get_current_user     *)
(* read, and commits what it changed of it; handlers of one user run at    *)
(* once.                                                                   *)
(***************************************************************************)
EXTENDS Integers, FiniteSets

CONSTANTS
    CallIds,        \* bound, a set of numbers: calls in flight together
    MaxCalls,       \* bound: calls sent
    MaxLost         \* bound: answers lost, and reloads

ASSUME FactorAssumption == CallIds \subseteq Nat /\ MaxCalls \in Nat

VARIABLES
    row,        \* totp_enabled and totp_secret; a secret is a number
    made,       \* secrets made so far
    shown,      \* secrets the card has shown, which an authenticator may hold
    proved,     \* secrets of which enable_2fa was shown a code
    stale,      \* has a setup or an enable committed by a row changed since it was read
    card,       \* the state of TwoFactorCard, and totp_enabled of the auth store
    call,       \* calls in flight
    calls, lost

factorVars == <<row, made, shown, proved, stale, card, call, calls, lost>>

-----------------------------------------------------------------------------
NoSecret == 0
\* A code of no secret, or an old one.
WrongCode == -1
NoRow == [enabled |-> FALSE, secret |-> NoSecret]
\* mine: the card waits for the answer.
NoCall == [op |-> "none", code |-> WrongCode, stage |-> "none", mine |-> FALSE, seen |-> NoRow]
NewCard(enabled) == [setup |-> NoSecret, dialog |-> FALSE, busy |-> FALSE, enabled |-> enabled]

Sent(op, code, c) ==
    /\ call[c] = NoCall /\ \A d \in CallIds : d < c => call[d] # NoCall
    /\ calls < MaxCalls /\ calls' = calls + 1
    /\ call' = [call EXCEPT ![c] = [NoCall EXCEPT !.op = op, !.code = code,
                                            !.stage = "sent", !.mine = TRUE]]

-----------------------------------------------------------------------------
(* The card.                                                               *)

Toggle ==
    /\ card' = [card EXCEPT !.dialog = ~@]
    /\ UNCHANGED <<row, made, shown, proved, stale, call, calls, lost>>

\* The button is not disabled while a secret is on its way.
StartSetup(c) ==
    /\ card.dialog /\ ~card.enabled /\ card.setup = NoSecret
    /\ Sent("setup", WrongCode, c)
    /\ UNCHANGED <<row, made, shown, proved, stale, card, lost>>

\* One form for both: it is there while the card has a secret to show.
Confirm(c) ==
    /\ card.dialog /\ card.setup # NoSecret /\ ~card.busy
    /\ \E code \in shown \cup {WrongCode} :
         Sent(IF card.enabled THEN "disable" ELSE "enable", code, c)
    /\ card' = [card EXCEPT !.busy = TRUE]
    /\ UNCHANGED <<row, made, shown, proved, stale, lost>>

FreedByAny(ok, op, secret) ==
    IF op = "setup" /\ ok THEN [card EXCEPT !.setup = secret, !.dialog = TRUE, !.busy = FALSE]
    ELSE [card EXCEPT !.busy = FALSE]
AfterAnswer(ok, op, secret) ==
    CASE op = "setup" /\ ok -> [card EXCEPT !.setup = secret, !.dialog = TRUE]
      [] op = "setup" /\ ~ok -> card
      [] op # "setup" /\ ok -> [card EXCEPT !.enabled = (op = "enable"), !.dialog = FALSE,
                                            !.busy = FALSE]
      [] op # "setup" /\ ~ok -> [card EXCEPT !.busy = FALSE]

\* code of an answered setup holds the secret it made.
Answered(c) ==
    /\ call[c].stage \in {"ok", "error"}
    /\ card' = AfterAnswer(call[c].stage = "ok", call[c].op, call[c].code)
    /\ shown' = IF call[c].op = "setup" /\ call[c].stage = "ok" THEN shown \cup {call[c].code}
                ELSE shown
    /\ call' = [call EXCEPT ![c] = NoCall]
    /\ UNCHANGED <<row, made, proved, stale, calls, lost>>

Unheard(k) == IF k.stage \in {"ok", "error"} THEN NoCall ELSE [k EXCEPT !.mine = FALSE]
\* A connection is lost: the card takes it for a refusal, the handler goes on.
Lost(c) ==
    /\ call[c].mine
    /\ lost < MaxLost /\ lost' = lost + 1
    /\ card' = AfterAnswer(FALSE, call[c].op, NoSecret)
    /\ call' = [call EXCEPT ![c] = Unheard(@)]
    /\ UNCHANGED <<row, made, shown, proved, stale, calls>>

\* The page is loaded again: the secret it showed is gone, the store is what
\* getMe says, and the calls in flight are nobody's.
Reload ==
    /\ lost < MaxLost /\ lost' = lost + 1
    /\ card' = NewCard(row.enabled)
    /\ call' = [c \in CallIds |-> Unheard(call[c])]
    /\ UNCHANGED <<row, made, shown, proved, stale, calls>>

-----------------------------------------------------------------------------
(* The handlers.                                                           *)

Read(c) ==
    /\ call[c].stage = "sent"
    /\ call' = [call EXCEPT ![c].stage = "read", ![c].seen = row]
    /\ UNCHANGED <<row, made, shown, proved, stale, card, calls, lost>>

End(c, answer) ==
    call' = [call EXCEPT ![c] = IF call[c].mine THEN answer ELSE NoCall]
Refused(c) ==
    End(c, [call[c] EXCEPT !.stage = "error"]) /\ UNCHANGED <<row, made, proved, stale>>
Judged(c) == stale' = (stale \/ row # call[c].seen)

SetupAlways(seen) == TRUE
MaySetup(seen) == ~seen.enabled
Setup(c) ==
    /\ call[c].op = "setup" /\ call[c].stage = "read"
    /\ IF MaySetup(call[c].seen)
       THEN /\ made' = made + 1
            /\ row' = [row EXCEPT !.secret = made + 1]
            /\ End(c, [call[c] EXCEPT !.stage = "ok", !.code = made + 1])
            /\ Judged(c) /\ UNCHANGED proved
       ELSE Refused(c)
    /\ UNCHANGED <<shown, card, calls, lost>>

\* Only totp_enabled is written, of the row as it is by then.
Enable(c) ==
    /\ call[c].op = "enable" /\ call[c].stage = "read"
    /\ IF call[c].seen.secret # NoSecret /\ call[c].code = call[c].seen.secret
       THEN /\ row' = [row EXCEPT !.enabled = @ \/ ~call[c].seen.enabled]
            /\ proved' = proved \cup {call[c].code}
            /\ End(c, [call[c] EXCEPT !.stage = "ok"])
            /\ Judged(c) /\ UNCHANGED made
       ELSE Refused(c)
    /\ UNCHANGED <<shown, card, calls, lost>>

Disable(c) ==
    /\ call[c].op = "disable" /\ call[c].stage = "read"
    /\ IF call[c].seen.enabled /\ call[c].code = call[c].seen.secret
       THEN /\ row' = NoRow
            /\ End(c, [call[c] EXCEPT !.stage = "ok"])
            /\ UNCHANGED <<made, proved, stale>>
       ELSE Refused(c)
    /\ UNCHANGED <<shown, card, calls, lost>>

FactorInit ==
    /\ row = NoRow
    /\ made = 0 /\ shown = {} /\ proved = {} /\ stale = FALSE
    /\ card = NewCard(FALSE)
    /\ call = [c \in CallIds |-> NoCall]
    /\ calls = 0 /\ lost = 0

FactorNext ==
    \/ Toggle \/ Reload
    \/ \E c \in CallIds : \/ StartSetup(c) \/ Confirm(c) \/ Answered(c) \/ Lost(c)
                          \/ Read(c) \/ Setup(c) \/ Enable(c) \/ Disable(c)

FactorSpec == FactorInit /\ [][FactorNext]_factorVars

-----------------------------------------------------------------------------
(* Properties.                                                             *)

Waiting(c) == call[c].mine /\ call[c].op # "setup"
\* Every variable has its type, and the card is busy for one call at a time.
FactorTypeOK ==
    /\ row \in [enabled : BOOLEAN, secret : 0 .. made]
    /\ made \in 0 .. MaxCalls /\ shown \cup proved \subseteq 1 .. made
    /\ card.setup \in 0 .. made
    /\ \A c, d \in CallIds :
         Waiting(c) /\ Waiting(d) => c = d /\ card.busy

\* README.md:202, "Enable 2FA (after code confirmation)": the secret a login is
\* asked for is one whose code the user has shown.  It fails when a setup commits
\* between the read and the commit of an enable, or the other way round, and then
\* the user is locked out by a secret no code confirmed.
EnabledAfterConfirmation == row.enabled => row.secret \in proved

\* It fails in no other way: a secret nobody confirmed is asked for only after a
\* setup or an enable committed by a row that another handler had changed since
\* it read it (setup_2fa and enable_2fa, which a test of the row as it is at the
\* commit would mend; disable_2fa needs none).
ConfirmedUnlessStale == row.enabled /\ ~stale => row.secret \in proved

=============================================================================
