-------------------------- MODULE SessionOwnership ---------------------------
(***************************************************************************)
(* Whose a divination session is: the columns user and anonymous_user_id   *)
(* of its row, the accounts (apps/accounts), and the requests that create, *)
(* claim, look up, delete and work on sessions (apps/divinations/views.py).*)
(*                                                                         *)
(* A view looks the session up (get_object) and then calls a service that  *)
(* reads and saves the row by itself: these are separate transactions, and *)
(* an interpretation holds what it has read for up to two minutes. A claim *)
(* is one transaction. What the services make of the other columns is the  *)
(* subject of DivinationSession.                                           *)
(***************************************************************************)
EXTENDS Naturals

CONSTANTS
    Records,     \* the session_uuids
    Users,       \* the primary keys of accounts: none is used again
    Requests,    \* the HTTP requests
    BrowserIds,  \* values of anonymous_user_id
    Nobody,      \* user is NULL; nobody is logged in
    NoId         \* anonymous_user_id is blank

ASSUME OwnershipAssumption == Nobody \notin Users /\ NoId \notin BrowserIds

VARIABLES
    account,   \* of each user: "none", "active" or "deleted"
    row,       \* of each record: "absent", "live" or "deleted"
    owner,     \* column user
    browser,   \* column anonymous_user_id
    pc,        \* where each request is
    who,       \* request.user
    target,    \* the record a request is about
    held       \* the session object of a request: its columns user, anonymous_user_id

table == <<row, owner, browser>>
requestVars == <<pc, who, target, held>>
vars == <<account, table, requestVars>>

Blank == [owner |-> Nobody, browser |-> NoId]
Columns(s) == [owner |-> owner[s], browser |-> browser[s]]

Init ==
    /\ account = [u \in Users |-> "none"]
    /\ row = [s \in Records |-> "absent"]
    /\ owner = [s \in Records |-> Nobody]
    /\ browser = [s \in Records |-> NoId]
    /\ pc = [r \in Requests |-> "new"]
    /\ who = [r \in Requests |-> Nobody]
    /\ target \in [Requests -> Records]
    /\ held = [r \in Requests |-> Blank]

Goto(r, label) == pc' = [pc EXCEPT ![r] = label]

\* The database checks the foreign key when a transaction that sets user commits.
Exists(u) == u # Nobody => account[u] = "active"
------------------------------------------------------------------------------
(* Accounts.                                                                *)

\* RegisterView: the new user's name is free, or the request is refused.
Register(u) ==
    /\ account[u] = "none"
    /\ account' = [account EXCEPT ![u] = "active"]
    /\ UNCHANGED <<table, requestVars>>

\* Mutant of ReleaseRecords: one session of the account is released.
ReleaseOne(u) ==
    IF \E s \in Records : owner[s] = u
    THEN \E s \in Records : owner[s] = u /\ owner' = [owner EXCEPT ![s] = Nobody]
    ELSE UNCHANGED owner

\* on_delete=SET_NULL
ReleaseRecords(u) == owner' = [s \in Records |-> IF owner[s] = u THEN Nobody ELSE owner[s]]

\* The staff delete an account (admin site): its sessions stay, and are nobody's.
RemoveAccount(u) ==
    /\ account[u] = "active"
    /\ account' = [account EXCEPT ![u] = "deleted"]
    /\ ReleaseRecords(u)
    /\ UNCHANGED <<row, browser, requestVars>>

\* JWTAuthentication: a request comes with the token of an account, or without one.
Authenticate(r) ==
    /\ pc[r] = "new"
    /\ \E u \in Users \cup {Nobody} : Exists(u) /\ who' = [who EXCEPT ![r] = u]
    /\ Goto(r, "authenticated")
    /\ UNCHANGED <<account, table, target, held>>
------------------------------------------------------------------------------
(* Sessions.                                                                *)

\* create_session: what the browser calls itself is kept whoever is logged in.
Create(r) ==
    LET s == target[r]
    IN  /\ pc[r] = "authenticated"
        /\ row[s] = "absent"
        /\ IF Exists(who[r])
           THEN /\ row' = [row EXCEPT ![s] = "live"]
                /\ owner' = [owner EXCEPT ![s] = who[r]]
                /\ \E id \in BrowserIds \cup {NoId} : browser' = [browser EXCEPT ![s] = id]
                /\ Goto(r, "answered")
           ELSE Goto(r, "refused") /\ UNCHANGED table
        /\ UNCHANGED <<account, who, target, held>>

\* Mutant of Claimable: any session that is there.
AnyRecord(r) == row[target[r]] = "live"

\* ClaimView's test: the session is there, and nobody else's.
Claimable(r) == row[target[r]] = "live" /\ owner[target[r]] \in {Nobody, who[r]}

\* ClaimView: the owner and the anonymous id change together. A claim of what is
\* already one's own changes nothing.
Claim(r) ==
    LET s == target[r]
    IN  /\ pc[r] = "authenticated"
        /\ who[r] # Nobody
        /\ IF Claimable(r)
           THEN IF owner[s] = who[r]
                THEN Goto(r, "answered") /\ UNCHANGED table
                ELSE IF Exists(who[r])
                THEN /\ owner' = [owner EXCEPT ![s] = who[r]]
                     /\ browser' = [browser EXCEPT ![s] = NoId]
                     /\ Goto(r, "claimed")
                     /\ UNCHANGED row
                ELSE Goto(r, "refused") /\ UNCHANGED table
           ELSE Goto(r, "refused") /\ UNCHANGED table
        /\ UNCHANGED <<account, who, target, held>>

\* get_object: a session that nobody owns is open to all, an owned one to its owner
\* and to whoever comes with its share token.
Allowed(r, share) == share \/ owner[target[r]] \in {Nobody, who[r]}

GetObject(r) ==
    /\ pc[r] = "authenticated"
    /\ row[target[r]] # "absent"
    /\ \E share \in BOOLEAN :
          IF row[target[r]] = "live" /\ Allowed(r, share)
          THEN /\ held' = [held EXCEPT ![r] = Columns(target[r])]
               /\ Goto(r, "admitted")
          ELSE Goto(r, "refused") /\ UNCHANGED held
    /\ UNCHANGED <<account, table, who, target>>

\* DELETE: by primary key, whoever the session belongs to by now.
Delete(r) ==
    /\ pc[r] = "admitted"
    /\ row' = [row EXCEPT ![target[r]] = "deleted"]
    /\ Goto(r, "answered")
    /\ UNCHANGED <<account, owner, browser, who, target, held>>

\* The service reads the session again, by itself: DoesNotExist if it is gone.
Read(r) ==
    /\ pc[r] = "admitted"
    /\ IF row[target[r]] = "live"
       THEN held' = [held EXCEPT ![r] = Columns(target[r])] /\ Goto(r, "working")
       ELSE Goto(r, "refused") /\ UNCHANGED held
    /\ UNCHANGED <<account, table, who, target>>

\* Mutant of WriteColumns: save() writes all columns of the object.
WriteRow(r) ==
    /\ Exists(held[r].owner)
    /\ owner' = [owner EXCEPT ![target[r]] = held[r].owner]
    /\ browser' = [browser EXCEPT ![target[r]] = held[r].browser]

\* save(update_fields=...) of the services names other columns only.
WriteColumns(r) == UNCHANGED <<owner, browser>>

\* A service saves the object it has read; an interpretation does it several times.
Save(r) ==
    /\ pc[r] = "working"
    /\ IF row[target[r]] = "live" THEN WriteColumns(r) ELSE UNCHANGED <<owner, browser>>
    /\ Goto(r, "working") \/ Goto(r, "answered")
    /\ UNCHANGED <<account, row, who, target, held>>
------------------------------------------------------------------------------
\* DivinationListCreateView.get, of an account and of a browser.
RecordsOf(u) == {s \in Records : row[s] = "live" /\ owner[s] = u}
RecordsOfBrowser(id) == {s \in Records : row[s] = "live" /\ browser[s] = id}

Done ==
    /\ \A r \in Requests : pc[r] \in {"answered", "claimed", "refused"}
    /\ UNCHANGED vars

Next ==
    \/ \E u \in Users : Register(u) \/ RemoveAccount(u)
    \/ \E r \in Requests :
          \/ Authenticate(r) \/ Create(r) \/ Claim(r) \/ GetObject(r)
          \/ Delete(r) \/ Read(r) \/ Save(r)
    \/ Done

Spec == Init /\ [][Next]_vars
------------------------------------------------------------------------------
\* The variables have their types; and no session belongs to an account that is not
\* there, however the removal of the account meets a claim or a creation.
TypeOK ==
    /\ account \in [Users -> {"none", "active", "deleted"}]
    /\ row \in [Records -> {"absent", "live", "deleted"}]
    /\ owner \in [Records -> Users \cup {Nobody}]
    /\ browser \in [Records -> BrowserIds \cup {NoId}]
    /\ pc \in [Requests -> {"new", "authenticated", "admitted", "working",
                            "answered", "claimed", "refused"}]
    /\ who \in [Requests -> Users \cup {Nobody}]
    /\ target \in [Requests -> Records]
    /\ held \in [Requests -> [owner : Users \cup {Nobody}, browser : BrowserIds \cup {NoId}]]
    /\ \A s \in Records : owner[s] # Nobody => account[owner[s]] = "active"

\* An owner keeps the session: whichever requests read it before it had one, and
\* come back late, it does not become another's, nor nobody's while the account
\* exists, and no anonymous id comes back.
OneOwner ==
    [][\A s \in Records : row[s] # "absent" =>
          /\ owner'[s] # owner[s] =>
                owner[s] = Nobody \/ (owner'[s] = Nobody /\ account'[owner[s]] = "deleted")
          /\ browser'[s] # browser[s] => browser'[s] = NoId]_vars

\* test_anonymous_divination_claim.py: "Claiming sets `user` and clears
\* `anonymous_user_id`". A session whose claim was answered is in its owner's list and
\* in no browser's, until it is deleted or the account is.
ClaimKept ==
    \A r \in Requests : pc[r] = "claimed" =>
        \/ row[target[r]] = "deleted"
        \/ account[who[r]] = "deleted"
        \/ /\ target[r] \in RecordsOf(who[r])
           /\ \A id \in BrowserIds : target[r] \notin RecordsOfBrowser(id)
=============================================================================
