---------------------------- MODULE AdminAccounts ----------------------------
(***************************************************************************)
(* Administrator accounts and custom roles (AuthService).  A request acts  *)
(* with the role its token was issued for; it reads, checks and writes in  *)
(* separate statements with no transaction around them, so requests        *)
(* interleave between the statements.  Only the difference between         *)
(* SUPER_ADMIN, the other system roles (VIEWER here) and custom roles      *)
(* matters to these handlers.                                              *)
(***************************************************************************)
EXTENDS FiniteSets

CONSTANTS
    Holders,     \* wallets that may have an account
    Founders,   \* SUPER_ADMINs the system starts with
    Edits,      \* requests that may be open at once
    Unasked,    \* a field the request leaves out
    Asks        \* the roles and states an administrator asks for

Roles == {"SUPER_ADMIN", "VIEWER", "CUSTOM"}

ASSUME AccountsAssumption ==
    /\ Founders \subseteq Holders /\ Founders # {}
    /\ Asks \subseteq [role: Roles \cup {Unasked}, active: BOOLEAN \cup {Unasked}]
    /\ Unasked \notin Roles /\ Unasked \notin BOOLEAN

VARIABLES
    account,    \* each wallet's Admin row, or Gone
    custom,     \* whether the custom AdminRoleDefinition exists
    token,      \* wallets with a token that was issued to a SUPER_ADMIN
    edit,       \* each open request
    crossed,    \* history: open requests another request has written past
    raced       \* history: such a request has written

accountVars == <<account, custom, token, edit, crossed, raced>>

Gone == [role |-> "none", active |-> FALSE]
AccountRows == [role: Roles, active: BOOLEAN] \cup {Gone}
NoEdit == [pc |-> "idle", kind |-> "update", target |-> Unasked,
           found |-> Gone, askedRole |-> Unasked, askedActive |-> Unasked]

AccountsInit ==
    /\ account = [a \in Holders |->
                     IF a \in Founders THEN [role |-> "SUPER_ADMIN", active |-> TRUE] ELSE Gone]
    /\ custom = FALSE
    /\ token = {}
    /\ edit = [r \in Edits |-> NoEdit]
    /\ crossed = {} /\ raced = FALSE

IsSuper(acc) == acc.role = "SUPER_ADMIN" /\ acc.active

-----------------------------------------------------------------------------
(* Tokens.  The guard trusts the role in the token while it lasts.          *)

\* verifyWallet, after its challenge was consumed.
SignIn(a) ==
    /\ a \notin token /\ IsSuper(account[a])
    /\ token' = token \cup {a}
    /\ UNCHANGED <<account, custom, edit, crossed, raced>>

TokenExpires(a) ==
    /\ a \in token
    /\ token' = token \ {a}
    /\ UNCHANGED <<account, custom, edit, crossed, raced>>

MayAdminister(by) == by \in token

-----------------------------------------------------------------------------
(* Requests.                                                                *)

Orelse(asked, current) == IF asked = Unasked THEN current ELSE asked
OrTrue(asked, current) == IF asked = Unasked THEN TRUE ELSE asked
NextRole(q) == Orelse(q.askedRole, q.found.role)
ActiveByDefault(q) == OrTrue(q.askedActive, q.found.active)
NextActive(q) == Orelse(q.askedActive, q.found.active)

AnySuper(q) == \E a \in Holders : IsSuper(account[a])
AnotherSuper(q) == \E a \in Holders \ {q.target} : IsSuper(account[a])

Demotes(q) ==
    /\ IsSuper(q.found)
    /\ \/ q.kind = "delete"
       \/ q.kind = "update" /\ (NextRole(q) # "SUPER_ADMIN" \/ ~NextActive(q))

Open(r, q) ==
    /\ edit[r].pc = "idle"
    /\ edit' = [edit EXCEPT ![r] = q]
    /\ crossed' = crossed \ {r}
    /\ UNCHANGED <<account, custom, token, raced>>

\* updateAdmin reads the account first.
BeginUpdate(r, by, a) ==
    \E ask \in Asks :
        /\ MayAdminister(by) /\ account[a] # Gone
        /\ Open(r, [pc |-> "resolving", kind |-> "update", target |-> a,
                    found |-> account[a], askedRole |-> ask.role, askedActive |-> ask.active])

NewAdmin == [role |-> "VIEWER", active |-> TRUE]

\* createAdmin, with its defaults, reads nothing: the unique wallet address is left to the database.
BeginCreate(r, by, a) ==
    \E ask \in Asks :
        /\ MayAdminister(by)
        /\ Open(r, [pc |-> "resolving", kind |-> "create", target |-> a,
                    found |-> NewAdmin, askedRole |-> ask.role, askedActive |-> ask.active])

\* deleteAdmin: not oneself.
BeginDelete(r, by, a) ==
    /\ MayAdminister(by) /\ account[a] # Gone /\ by # a
    /\ Open(r, [NoEdit EXCEPT !.kind = "delete", !.target = a, !.found = account[a],
                            !.pc = IF IsSuper(account[a]) THEN "counting" ELSE "writing"])

\* resolveRoleDefinition: a custom role is created, or brought back, on the way.
ResolveRole(r) ==
    LET q == edit[r] IN
    /\ q.pc = "resolving"
    /\ custom' = (custom \/ NextRole(q) = "CUSTOM")
    /\ edit' = [edit EXCEPT ![r].pc = IF Demotes(q) THEN "counting" ELSE "writing"]
    /\ UNCHANGED <<account, token, crossed, raced>>

\* ensureCanDemoteOrDeactivateSuperAdmin.
CountOthers(r) ==
    LET q == edit[r] IN
    /\ q.pc = "counting"
    /\ edit' = [edit EXCEPT ![r] = IF AnotherSuper(q) THEN [q EXCEPT !.pc = "writing"] ELSE NoEdit]
    /\ UNCHANGED <<account, custom, token, crossed, raced>>

\* What the database takes: a row that is there (or, to create, is not), and a
\* role that still exists (onDelete: Restrict).
RowThere(q) == (account[q.target] = Gone) = (q.kind = "create")
AnyRole(q) == TRUE
RoleThere(q) == q.kind = "delete" \/ NextRole(q) # "CUSTOM" \/ custom
Accepts(q) == RowThere(q) /\ RoleThere(q)

Written(q) ==
    IF q.kind = "delete" THEN Gone ELSE [role |-> NextRole(q), active |-> NextActive(q)]

Write(r) ==
    LET q == edit[r] IN
    /\ q.pc = "writing" /\ Accepts(q)
    /\ account' = [account EXCEPT ![q.target] = Written(q)]
    /\ raced' = (raced \/ r \in crossed)
    /\ crossed' = crossed \cup {o \in Edits \ {r} : edit[o].pc # "idle"}
    /\ edit' = [edit EXCEPT ![r] = NoEdit]
    /\ UNCHANGED <<custom, token>>

WriteFails(r) ==
    /\ edit[r].pc = "writing" /\ ~Accepts(edit[r])
    /\ edit' = [edit EXCEPT ![r] = NoEdit]
    /\ UNCHANGED <<account, custom, token, crossed, raced>>

\* deleteCustomAdminRole: its members become VIEWER in one transaction with it.
DeleteCustomRole(by) ==
    /\ MayAdminister(by) /\ custom
    /\ custom' = FALSE
    /\ account' = [a \in Holders |->
                      IF account[a].role = "CUSTOM" THEN [account[a] EXCEPT !.role = "VIEWER"]
                                                    ELSE account[a]]
    /\ crossed' = crossed \cup {o \in Edits : edit[o].pc # "idle"}
    /\ UNCHANGED <<token, edit, raced>>

AccountsNext ==
    \/ \E a \in Holders : SignIn(a) \/ TokenExpires(a) \/ DeleteCustomRole(a)
    \/ \E r \in Edits :
          \/ \E by, a \in Holders :
                BeginUpdate(r, by, a) \/ BeginCreate(r, by, a) \/ BeginDelete(r, by, a)
          \/ ResolveRole(r) \/ CountOthers(r) \/ Write(r) \/ WriteFails(r)

AccountsSpec == AccountsInit /\ [][AccountsNext]_accountVars

-----------------------------------------------------------------------------
(* Properties.                                                              *)

\* Every variable keeps its shape, and a custom role in use exists: it is not
\* deleted while a request is about to give it to someone.
AccountsTypeOK ==
    /\ account \in [Holders -> AccountRows] /\ custom \in BOOLEAN /\ raced \in BOOLEAN
    /\ token \subseteq Holders /\ crossed \subseteq Edits
    /\ edit \in [Edits ->
          [pc: {"idle", "resolving", "counting", "writing"},
           kind: {"update", "create", "delete"}, target: Holders \cup {Unasked}, found: AccountRows,
           askedRole: Roles \cup {Unasked}, askedActive: BOOLEAN \cup {Unasked}]]
    /\ \A a \in Holders : account[a].role = "CUSTOM" => custom

SomeSuperAdmin == \E a \in Holders : IsSuper(account[a])

\* As long as no request wrote across another, an active SUPER_ADMIN remains,
\* whatever roles the tokens in use still carry.
SuperAdminRemainsUnraced == raced \/ SomeSuperAdmin

\* An update changes what it was asked to change: its other fields are written
\* too, from the row it read, which only a request in between makes visible.
UpdatesWhatWasAsked ==
    [][\A r \in Edits :
          LET q == edit[r] IN
          q.kind = "update" /\ q.pc = "writing" /\ account'[q.target] # account[q.target]
              /\ edit'[r].pc = "idle" /\ ~raced' =>
          /\ q.askedRole = Unasked => account'[q.target].role = account[q.target].role
          /\ q.askedActive = Unasked => account'[q.target].active = account[q.target].active]_accountVars

\* "At least one active SUPER_ADMIN must remain in the system."
SuperAdminRemains == SomeSuperAdmin
=============================================================================
