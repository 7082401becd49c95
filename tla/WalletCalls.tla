------------------------------ MODULE WalletCalls ------------------------------
(***************************************************************************)
(* The calls a wallet makes of the users' API to convert, to stake, to     *)
(* claim and to note an activity.  They share one course: the header's     *)
(* settings, the limit, the block of the wallet, its country, its row and  *)
(* then the work of each, against the network the header named when the    *)
(* call came in.  Meanwhile administrators switch the network, block or    *)
(* delete the wallet, and make it an administrator.                        *)
(***************************************************************************)
EXTENDS Naturals, FiniteSets

CONSTANTS
    Handlers,        \* calls under way at once
    MaxAsked,        \* calls made in all
    MaxActs          \* acts of administrators
ASSUME WalletCallsAssumption == MaxAsked \in Nat /\ MaxActs \in Nat

VARIABLES
    header, headerSeen,   \* the row of HeaderSetting, and the API's cached reading
    user,                 \* the row of WalletUser; id 0 when there is none
    isListed,               \* whether the wallet is on the list of administrators
    geo,                  \* country of the wallet's address: lookup and cache
    ask,                  \* the calls
    prepared,             \* per flow, the session prepared for the wallet
    position,             \* the row of its stake
    sends,                 \* transactions sent: built for one network, sent to one
    rows,                 \* rows written: activities, conversions, positions
    asked, acts

callsVars == <<header, headerSeen, user, isListed, geo, ask, prepared, position, sends, rows, asked, acts>>
recordVars == <<prepared, position, sends, rows>>
adminVars == <<header, isListed, acts>>

CallNets == {"devnet", "mainnet"}
Flows == {"convert", "stake", "claim"}
Previews == {"previewConvert", "previewStake"}
\* The calls that make the user's row, or touch it, before their work.
Upserting == Previews \cup {"prepareConvert", "prepareStake", "createStake", "activity"}
\* The calls that begin with what was prepared or recorded before.
Loading == {"executeConvert", "executeStake", "executeClaim", "prepareClaim", "claim"}
NoAsk == [kind |-> "none", pc |-> "idle", net |-> "devnet", id |-> 0, role |-> "USER",
          blocked |-> FALSE, from |-> "none", barred |-> FALSE]
Unread == [on |-> TRUE, net |-> "none"]
NonePrepared == [net |-> "none", user |-> 0, live |-> FALSE]
Kept(net, id) == [net |-> net, user |-> id, live |-> TRUE]

\* resolveWalletRole.
Resolved == IF isListed THEN "ADMIN" ELSE "USER"
CallsInit ==
    /\ header \in [on : {TRUE}, net : {"devnet"}] /\ headerSeen = Unread
    /\ isListed \in BOOLEAN /\ geo = "none"
    /\ user \in {[id |-> 0, role |-> "USER", blocked |-> FALSE],
                [id |-> 1, role |-> Resolved, blocked |-> ~isListed]}
    /\ ask = [c \in Handlers |-> NoAsk]
    /\ rows = {} /\ asked = 0 /\ acts = 0
    /\ \E before \in {"none", "executed", "staked"} :   \* how far the wallet had got with a stake
         /\ before = "none" \/ user.id # 0
         /\ sends = IF before = "none" THEN {} ELSE {[flow |-> "stake", from |-> "devnet", on |-> "devnet"]}
         /\ prepared = [f \in Flows |-> IF f = "stake" /\ before = "executed" THEN Kept("devnet", 0) ELSE NonePrepared]
         /\ position = IF before = "staked" THEN Kept("devnet", 1) ELSE NonePrepared

\* isUserBlockedForAccess, of a row or of what was read of it.
Blocked(u) == u.role # "ADMIN" /\ u.blocked
BarredNow == user.id # 0 /\ user.blocked /\ ~isListed
To(c, pc) == ask' = [ask EXCEPT ![c].pc = pc]

-----------------------------------------------------------------------------
(* The course every call takes.                                             *)

\* The header's settings, of the cache for ten seconds; the call keeps its network.
Comes(c, kind) ==
    LET seen == IF headerSeen = Unread THEN header ELSE headerSeen IN
    /\ ask[c].pc = "idle" /\ asked < MaxAsked /\ asked' = asked + 1
    /\ headerSeen' = seen
    /\ ask' = IF seen.on
              THEN [ask EXCEPT ![c] = [NoAsk EXCEPT !.kind = kind, !.pc = "row", !.net = seen.net,
                                                     !.barred = BarredNow]]
              ELSE ask
    /\ UNCHANGED <<user, geo, adminVars, recordVars>>
HeaderExpires ==
    /\ headerSeen # Unread /\ headerSeen' = Unread
    /\ UNCHANGED <<user, geo, ask, asked, adminVars, recordVars>>

\* The calls, each given the parts of the service it works with.
CallPreviewConvert(c) == Comes(c, "previewConvert")
CallPrepareConvert(c) == Comes(c, "prepareConvert")
CallExecuteConvert(c) == Comes(c, "executeConvert")
CallPreviewStake(c) == Comes(c, "previewStake")
CallPrepareStake(c) == Comes(c, "prepareStake")
CallExecuteStake(c) == Comes(c, "executeStake")
CallCreateStake(c) == Comes(c, "createStake")
CallPrepareClaim(c) == Comes(c, "prepareClaim")
CallExecuteClaim(c) == Comes(c, "executeClaim")
CallClaim(c) == Comes(c, "claim")
CallCreateActivity(c) == Comes(c, "activity")

\* A refusal, a limit reached, or a statement or request that fails.
HandlerFails(c) ==
    /\ ask[c].pc # "idle" /\ ask' = [ask EXCEPT ![c] = NoAsk]
    /\ UNCHANGED <<headerSeen, user, geo, asked, adminVars, recordVars>>

\* What comes after the block of the wallet was checked.
Next1(kind) == IF kind \in Upserting \cup {"claim"} THEN "country" ELSE "load"
\* Mutant: the calls that carry out what was prepared are not checked.
CheckedOnce(kind) == kind \notin {"executeConvert", "executeStake", "executeClaim"}
Checked(kind) == TRUE
\* What was read for the check is not looked at again.
Passed(a) == [NoAsk EXCEPT !.kind = a.kind, !.pc = Next1(a.kind), !.net = a.net, !.barred = a.barred]
\* assertWalletNotBlocked reads the row; a wallet without one passes,
ReadRow(c) ==
    /\ ask[c].pc = "row"
    /\ ask' = IF user.id = 0 \/ ~Checked(ask[c].kind) THEN [ask EXCEPT ![c] = Passed(@)]
              ELSE [ask EXCEPT ![c] = [@ EXCEPT !.pc = "role", !.id = user.id, !.role = user.role,
                                                !.blocked = user.blocked]]
    /\ UNCHANGED <<headerSeen, user, geo, asked, adminVars, recordVars>>
\* then the list of administrators: a row that disagrees with it is written first.
Agrees(c) == ask[c].role = Resolved /\ ~(isListed /\ ask[c].blocked)
ReadRole(c) ==
    /\ ask[c].pc = "role"
    /\ IF Agrees(c) THEN ~Blocked(ask[c]) /\ ask' = [ask EXCEPT ![c] = Passed(@)]
       ELSE ask' = [ask EXCEPT ![c] = [@ EXCEPT !.pc = "sync", !.role = Resolved]]
    /\ UNCHANGED <<headerSeen, user, geo, asked, adminVars, recordVars>>
\* syncWalletRoleAndBlockState writes by the id it read, and decides by what it wrote.
SyncRow(c) ==
    LET now == [user EXCEPT !.role = ask[c].role, !.blocked = @ /\ ask[c].role # "ADMIN"] IN
    /\ ask[c].pc = "sync" /\ user.id = ask[c].id
    /\ user' = now
    /\ ask' = [d \in Handlers |->
                 IF d # c THEN [ask[d] EXCEPT !.barred = @ /\ now.blocked]
                 ELSE IF Blocked(now) THEN NoAsk
                 ELSE [Passed(ask[c]) EXCEPT !.barred = @ /\ now.blocked]]
    /\ UNCHANGED <<headerSeen, geo, asked, adminVars, recordVars>>

-----------------------------------------------------------------------------
(* The country and the row of the user.                                     *)

Next2(kind) == IF kind \in Upserting THEN "upsert" ELSE "load"
\* Given by the header, or none, or cached; else one lookup serves all that wait.
KnowCountry(c) ==
    /\ ask[c].pc = "country"
    /\ \/ To(c, Next2(ask[c].kind)) /\ geo' = geo
       \/ geo # "cached" /\ geo' = "looking" /\ To(c, "lookup")
    /\ UNCHANGED <<headerSeen, user, asked, adminVars, recordVars>>
CountryAnswers ==
    /\ geo = "looking" /\ geo' = "cached"
    /\ ask' = [c \in Handlers |-> IF ask[c].pc = "lookup" THEN [ask[c] EXCEPT !.pc = Next2(ask[c].kind)] ELSE ask[c]]
    /\ UNCHANGED <<headerSeen, user, asked, adminVars, recordVars>>
CountryExpires ==
    /\ geo = "cached" /\ geo' = "none"
    /\ UNCHANGED <<headerSeen, user, ask, asked, adminVars, recordVars>>

\* upsertWalletUser reads the list and the row,
FindUser(c) ==
    /\ ask[c].pc = "upsert"
    /\ ask' = [ask EXCEPT ![c] = [@ EXCEPT !.pc = "put", !.role = Resolved, !.id = user.id]]
    /\ UNCHANGED <<headerSeen, user, geo, asked, adminVars, recordVars>>
\* and makes the row, unless another call has, or writes the role it read into it.
PutUser(c) ==
    /\ ask[c].pc = "put" /\ user.id = ask[c].id
    /\ user' = IF user.id = 0 THEN [id |-> acts + 1, role |-> ask[c].role, blocked |-> FALSE]
               ELSE [user EXCEPT !.role = ask[c].role]
    /\ ask' = [ask EXCEPT ![c] = [@ EXCEPT !.id = user'.id,
                 !.pc = IF ask[c].kind \in Previews THEN "answer" ELSE "work"]]
    /\ UNCHANGED <<headerSeen, geo, asked, adminVars, recordVars>>

-----------------------------------------------------------------------------
(* The work of each.                                                        *)

\* Settings, prices, balances and quotes are read, and the preview is given.
Answer(c) ==
    /\ ask[c].pc = "answer" /\ ask' = [ask EXCEPT ![c] = NoAsk]
    /\ UNCHANGED <<headerSeen, user, geo, asked, adminVars, recordVars>>
\* Mutant: no foreign key holds a row to its user.
HasUserAny(c) == user.id # 0
HasUser(c) == user.id # 0 /\ user.id = ask[c].id
\* The session of a conversion is a row of the user's; those of a stake and a claim are
\* kept aside until they expire.
SaveConvert(c) ==
    /\ ask[c].pc = "work" /\ ask[c].kind = "prepareConvert" /\ HasUser(c)
    /\ prepared' = [prepared EXCEPT !["convert"] = Kept(ask[c].net, ask[c].id)]
    /\ ask' = [ask EXCEPT ![c] = NoAsk]
    /\ UNCHANGED <<headerSeen, user, geo, asked, adminVars, position, sends, rows>>
SaveAside(c, flow) ==
    /\ ask[c].pc = "work"
    /\ prepared' = [prepared EXCEPT ![flow] = Kept(ask[c].net, 0)]
    /\ ask' = [ask EXCEPT ![c] = NoAsk]
    /\ UNCHANGED <<headerSeen, user, geo, asked, adminVars, position, sends, rows>>
SaveStake(c) == ask[c].kind = "prepareStake" /\ SaveAside(c, "stake")
SaveClaim(c) == ask[c].kind = "prepareClaim" /\ SaveAside(c, "claim")
PreparedExpires(flow) ==
    /\ prepared[flow].live /\ prepared' = [prepared EXCEPT ![flow] = NonePrepared]
    /\ UNCHANGED <<headerSeen, user, geo, ask, asked, adminVars, position, sends, rows>>

\* Mutant: what was prepared is taken whatever the network is now.
FitsAny(c, row) == row.live
Fits(c, row) == row.live /\ row.net = ask[c].net
Loads(c, kind, row, pc) ==
    /\ ask[c].pc = "load" /\ ask[c].kind = kind /\ Fits(c, row)
    /\ ask' = [ask EXCEPT ![c] = [@ EXCEPT !.pc = pc, !.from = row.net, !.id = row.user]]
    /\ UNCHANGED <<headerSeen, user, geo, asked, adminVars, recordVars>>
LoadConvert(c) == Loads(c, "executeConvert", prepared["convert"], "send")
LoadStake(c) == Loads(c, "executeStake", prepared["stake"], "send")
LoadClaim(c) == Loads(c, "executeClaim", prepared["claim"], "send")
LoadPosition(c) == \E kind \in {"prepareClaim", "claim"} : Loads(c, kind, position, "work")

\* A conversion is sent to the network of the call, the others to that of their session.
Send(c, flow, net) ==
    /\ ask[c].pc = "send" /\ sends' = sends \cup {[flow |-> flow, from |-> ask[c].from, on |-> net]}
    /\ UNCHANGED <<headerSeen, user, geo, asked, adminVars, prepared, position, rows>>
SendConvert(c) == ask[c].kind = "executeConvert" /\ Send(c, "convert", ask[c].net) /\ To(c, "work")
SendStake(c) == ask[c].kind = "executeStake" /\ Send(c, "stake", ask[c].from) /\ To(c, "answer")
SendClaim(c) == ask[c].kind = "executeClaim" /\ Send(c, "claim", ask[c].from) /\ To(c, "answer")

Row(c, what) == [what |-> what, net |-> ask[c].net, user |-> ask[c].id]
Records(c, kind) ==
    /\ ask[c].pc = "work" /\ ask[c].kind = kind /\ HasUser(c)
    /\ rows' = rows \cup {Row(c, kind)}
    /\ ask' = [ask EXCEPT ![c] = NoAsk]
    /\ UNCHANGED <<headerSeen, user, geo, asked, adminVars, sends>>
\* The activities of the legs, and the session is settled.
RecordConvert(c) ==
    /\ Records(c, "executeConvert")
    /\ prepared' = [prepared EXCEPT !["convert"] = NonePrepared] /\ UNCHANGED position
\* The wallet asks for the row of its stake once the transaction has run.
RecordStake(c) ==
    /\ Records(c, "createStake") /\ ~position.live
    /\ Fits(c, prepared["stake"])
    /\ \E t \in sends : t.flow = "stake" /\ t.on = prepared["stake"].net
    /\ position' = Kept(ask[c].net, ask[c].id) /\ UNCHANGED prepared
RecordClaim(c) ==
    /\ Records(c, "claim") /\ position.live
    /\ position' = [position EXCEPT !.live = FALSE] /\ UNCHANGED prepared
RecordActivity(c) == Records(c, "activity") /\ UNCHANGED <<prepared, position>>

-----------------------------------------------------------------------------
(* Administrators.                                                          *)

Act == acts < MaxActs /\ acts' = acts + 1
Unbarred == ask' = [c \in Handlers |-> [ask[c] EXCEPT !.barred = FALSE]]
SwitchNetwork ==
    /\ Act /\ header' = [header EXCEPT !.net = CHOOSE n \in CallNets : n # @]
    /\ UNCHANGED <<headerSeen, user, isListed, geo, ask, asked, recordVars>>
SwitchConnections ==
    /\ Act /\ header' = [header EXCEPT !.on = ~@]
    /\ UNCHANGED <<headerSeen, user, isListed, geo, ask, asked, recordVars>>
\* updateWalletUserBlock: an administrator's wallet is not blocked.
BlockUser ==
    /\ Act /\ user.id # 0 /\ ~isListed
    /\ user' = [user EXCEPT !.role = "USER", !.blocked = TRUE]
    /\ UNCHANGED <<header, headerSeen, isListed, geo, ask, asked, recordVars>>
UnblockUser ==
    /\ Act /\ user.id # 0
    /\ user' = [user EXCEPT !.role = Resolved, !.blocked = FALSE] /\ Unbarred
    /\ UNCHANGED <<header, headerSeen, isListed, geo, asked, recordVars>>
\* deleteWalletUser: the rows of the user go with it, what is kept aside does not.
DeleteUser ==
    /\ Act /\ user.id # 0
    /\ user' = [id |-> 0, role |-> "USER", blocked |-> FALSE] /\ Unbarred
    /\ prepared' = [prepared EXCEPT !["convert"] = NonePrepared]
    /\ position' = NonePrepared /\ rows' = {}
    /\ UNCHANGED <<header, headerSeen, isListed, geo, asked, sends>>
ListAdministrator ==
    /\ Act /\ isListed' = ~isListed /\ Unbarred
    /\ UNCHANGED <<header, headerSeen, user, geo, asked, recordVars>>

Enters(c) ==
    \/ CallPreviewConvert(c) \/ CallPrepareConvert(c) \/ CallExecuteConvert(c) \/ CallPreviewStake(c)
    \/ CallPrepareStake(c) \/ CallExecuteStake(c) \/ CallCreateStake(c) \/ CallPrepareClaim(c)
    \/ CallExecuteClaim(c) \/ CallClaim(c) \/ CallCreateActivity(c)
Passes(c) ==
    \/ HandlerFails(c) \/ ReadRow(c) \/ ReadRole(c) \/ SyncRow(c) \/ KnowCountry(c)
    \/ FindUser(c) \/ PutUser(c) \/ Answer(c)
Works(c) ==
    \/ SaveConvert(c) \/ SaveStake(c) \/ SaveClaim(c)
    \/ LoadConvert(c) \/ LoadStake(c) \/ LoadClaim(c) \/ LoadPosition(c)
    \/ SendConvert(c) \/ SendStake(c) \/ SendClaim(c)
    \/ RecordConvert(c) \/ RecordStake(c) \/ RecordClaim(c) \/ RecordActivity(c)
CallsNext ==
    \/ \E c \in Handlers : Enters(c) \/ Passes(c) \/ Works(c)
    \/ HeaderExpires \/ CountryAnswers \/ CountryExpires
    \/ \E f \in Flows : PreparedExpires(f)
    \/ SwitchNetwork \/ SwitchConnections \/ BlockUser \/ UnblockUser
    \/ DeleteUser \/ ListAdministrator
CallsSpec == CallsInit /\ [][CallsNext]_callsVars

-----------------------------------------------------------------------------
\* A type invariant.
CallsTypeOK ==
    /\ header \in [on : BOOLEAN, net : CallNets]
    /\ user \in [id : 0 .. MaxActs + 1, role : {"ADMIN", "USER"}, blocked : BOOLEAN]
    /\ isListed \in BOOLEAN /\ geo \in {"none", "looking", "cached"}
    /\ \A f \in Flows : prepared[f].net \in CallNets \cup {"none"}
    /\ position.net \in CallNets \cup {"none"} /\ asked \in 0 .. MaxAsked /\ acts \in 0 .. MaxActs

\* Whatever the network is switched to between the calls of a conversion, a stake or a
\* claim, a transaction is sent to the network it was prepared for, and the row of a
\* stake names a network on which one has run.
RanWherePrepared ==
    /\ \A t \in sends : t.from = t.on
    /\ position.live => \E t \in sends : t.flow = "stake" /\ t.on = position.net

\* A wallet that was blocked when its call came in, and has stayed so, gets past the
\* check in none of the calls, whatever role its row had been left with.
BlockedGetNothing ==
    \A c \in Handlers : ask[c].barred => ask[c].pc \in {"row", "role", "sync"}

\* Every row is of the user there is: none is written for one that was deleted while the
\* call went on, and none is left behind.
RowsHaveTheirUser ==
    /\ \A r \in rows : r.user = user.id
    /\ position.live => position.user = user.id

\* Whatever administrators do while calls run: a transaction is sent to the network it
\* was prepared for, a wallet blocked before its call gets nothing done, and no row is
\* left of a user who was deleted (assertWalletNotBlocked of users-wallet-state.service.ts,
\* validatePreparedStakeSession, deleteWalletUser).
CallsKeepTheirGround == RanWherePrepared /\ BlockedGetNothing /\ RowsHaveTheirUser
=============================================================================
