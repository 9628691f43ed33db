----------------------- MODULE SessionOwnership_proofs -----------------------
(***************************************************************************)
(* Proofs about SessionOwnership, for any number of accounts, sessions,    *)
(* requests and browsers.                                                  *)
(***************************************************************************)
EXTENDS SessionOwnership, TLAPS

(***************************************************************************)
(* ClaimKept becomes inductive with two facts: an account that has ever    *)
(* been seen as request.user is never back to "none", so that a claim is   *)
(* undone by its deletion only; and who claimed was logged in.             *)
(***************************************************************************)
WhoWasThere ==
    \A r \in Requests :
        /\ who[r] # Nobody => account[who[r]] # "none"
        /\ pc[r] = "claimed" => who[r] # Nobody

IInv == TypeOK /\ ClaimKept /\ WhoWasThere

LEMMA InitIInv == Init => IInv
BY OwnershipAssumption DEF Init, Blank, IInv, TypeOK, ClaimKept, WhoWasThere

\* A new account changes nothing of any session.
LEMMA RegisterIInv ==
    ASSUME IInv, NEW u \in Users, Register(u)
    PROVE  IInv'
<1> USE OwnershipAssumption DEF IInv, Register, table, requestVars
<1>1. TypeOK'
  BY DEF TypeOK
<1>2. ClaimKept'
  BY DEF TypeOK, ClaimKept, WhoWasThere, RecordsOf, RecordsOfBrowser
<1>3. WhoWasThere'
  BY DEF TypeOK, WhoWasThere
<1> QED
  BY <1>1, <1>2, <1>3

\* With the account go all its sessions, and only they.
LEMMA RemoveAccountIInv ==
    ASSUME IInv, NEW u \in Users, RemoveAccount(u)
    PROVE  IInv'
<1> USE OwnershipAssumption DEF IInv, RemoveAccount, ReleaseRecords, requestVars
<1>1. TypeOK'
  BY DEF TypeOK
<1>2. ClaimKept'
  <2> SUFFICES ASSUME NEW r \in Requests, pc[r] = "claimed",
                      row[target[r]] # "deleted", account'[who[r]] # "deleted"
               PROVE  /\ target[r] \in RecordsOf(who[r])'
                      /\ \A id \in BrowserIds : target[r] \notin RecordsOfBrowser(id)'
    BY DEF ClaimKept
  <2>1. who[r] \in Users /\ who[r] # u
    BY DEF TypeOK, WhoWasThere
  <2>2. /\ target[r] \in RecordsOf(who[r])
        /\ \A id \in BrowserIds : target[r] \notin RecordsOfBrowser(id)
    BY <2>1 DEF ClaimKept, TypeOK
  <2> QED
    BY <2>1, <2>2 DEF RecordsOf, RecordsOfBrowser, TypeOK
<1>3. WhoWasThere'
  BY DEF TypeOK, WhoWasThere
<1> QED
  BY <1>1, <1>2, <1>3

\* A request is admitted with an account that is there.
LEMMA AuthenticateIInv ==
    ASSUME IInv, NEW r \in Requests, Authenticate(r)
    PROVE  IInv'
<1> USE OwnershipAssumption DEF IInv, Authenticate, Goto, Exists, table
<1>1. TypeOK'
  BY DEF TypeOK
<1>2. ClaimKept'
  BY DEF TypeOK, ClaimKept, RecordsOf, RecordsOfBrowser
<1>3. WhoWasThere'
  BY DEF TypeOK, WhoWasThere
<1> QED
  BY <1>1, <1>2, <1>3

\* A new session is no session that was claimed.
LEMMA CreateIInv ==
    ASSUME IInv, NEW r \in Requests, Create(r)
    PROVE  IInv'
<1> USE OwnershipAssumption DEF IInv, Create, Goto, Exists, table
<1>1. TypeOK'
  <2> USE DEF TypeOK
  <2>1. /\ row' \in [Records -> {"absent", "live", "deleted"}]
        /\ browser' \in [Records -> BrowserIds \cup {NoId}]
    BY SMTT(30)
  <2>2. /\ owner' \in [Records -> Users \cup {Nobody}]
        /\ \A s \in Records : owner'[s] # Nobody => account'[owner'[s]] = "active"
    <3>1. CASE Exists(who[r])
      <4>1. owner' = [owner EXCEPT ![target[r]] = who[r]] /\ account' = account
        BY <3>1
      <4>2. who[r] \in Users \cup {Nobody} /\ (who[r] # Nobody => account[who[r]] = "active")
        BY <3>1
      <4> HIDE DEF Create
      <4> QED
        BY <4>1, <4>2
    <3>2. CASE ~Exists(who[r])
      BY <3>2
    <3> QED
      BY <3>1, <3>2
  <2>3. pc' \in [Requests -> {"new", "authenticated", "admitted", "working",
                              "answered", "claimed", "refused"}]
    OBVIOUS
  <2> QED
    BY <2>1, <2>2, <2>3
<1>2. ClaimKept'
  <2> SUFFICES ASSUME NEW q \in Requests, pc'[q] = "claimed",
                      row'[target[q]] # "deleted", account[who[q]] # "deleted"
               PROVE  /\ target[q] \in RecordsOf(who[q])'
                      /\ \A id \in BrowserIds : target[q] \notin RecordsOfBrowser(id)'
    BY DEF ClaimKept
  <2>1. q # r /\ pc[q] = "claimed"
    BY DEF TypeOK
  <2>2. row[target[q]] # "deleted"
    BY DEF TypeOK
  <2>3. /\ target[q] \in RecordsOf(who[q])
        /\ \A id \in BrowserIds : target[q] \notin RecordsOfBrowser(id)
    BY <2>1, <2>2 DEF ClaimKept
  <2>4. target[q] # target[r]
    BY <2>3 DEF RecordsOf
  <2> QED
    BY <2>3, <2>4 DEF RecordsOf, RecordsOfBrowser, TypeOK
<1>3. WhoWasThere'
  BY DEF TypeOK, WhoWasThere
<1> QED
  BY <1>1, <1>2, <1>3

\* A claim takes nobody's session, which no earlier claim still holds.
LEMMA ClaimIInv ==
    ASSUME IInv, NEW r \in Requests, Claim(r)
    PROVE  IInv'
<1> USE OwnershipAssumption DEF IInv, Claim, Claimable, Goto, Exists, table
<1>1. TypeOK'
  BY DEF TypeOK
<1>2. ClaimKept'
  <2> SUFFICES ASSUME NEW q \in Requests, pc'[q] = "claimed",
                      row'[target[q]] # "deleted", account[who[q]] # "deleted"
               PROVE  /\ target[q] \in RecordsOf(who[q])'
                      /\ \A id \in BrowserIds : target[q] \notin RecordsOfBrowser(id)'
    BY DEF ClaimKept
  <2>1. CASE q = r
    BY <2>1 DEF TypeOK, RecordsOf, RecordsOfBrowser
  <2>2. CASE q # r
    <3>1. pc[q] = "claimed" /\ row[target[q]] # "deleted"
      BY <2>2 DEF TypeOK
    <3>2. /\ target[q] \in RecordsOf(who[q])
          /\ \A id \in BrowserIds : target[q] \notin RecordsOfBrowser(id)
          /\ who[q] # Nobody
      BY <3>1 DEF ClaimKept, WhoWasThere
    <3>3. UNCHANGED table \/ target[q] # target[r]
      BY <3>2 DEF RecordsOf, TypeOK
    <3> QED
      BY <3>2, <3>3 DEF RecordsOf, RecordsOfBrowser, TypeOK
  <2> QED
    BY <2>1, <2>2
<1>3. WhoWasThere'
  BY DEF TypeOK, WhoWasThere
<1> QED
  BY <1>1, <1>2, <1>3

\* Looking a session up, deleting it and working on it leave its columns alone.
LEMMA WorkIInv ==
    ASSUME IInv, NEW r \in Requests, GetObject(r) \/ Delete(r) \/ Read(r) \/ Save(r)
    PROVE  IInv'
<1> USE OwnershipAssumption DEF IInv, GetObject, Delete, Read, Save, WriteColumns,
        Goto, Columns, table
<1>1. TypeOK'
  <2> USE DEF TypeOK
  <2>0. Columns(target[r]) \in [owner : Users \cup {Nobody}, browser : BrowserIds \cup {NoId}]
    OBVIOUS
  <2> HIDE DEF Columns
  <2>1. CASE GetObject(r)
    BY <2>0, <2>1
  <2>2. CASE Delete(r)
    BY <2>2
  <2>3. CASE Read(r)
    BY <2>0, <2>3
  <2>4. CASE Save(r)
    BY <2>4
  <2> QED
    BY <2>1, <2>2, <2>3, <2>4
<1>2. ClaimKept'
  BY DEF TypeOK, ClaimKept, RecordsOf, RecordsOfBrowser
<1>3. WhoWasThere'
  BY DEF TypeOK, WhoWasThere
<1> QED
  BY <1>1, <1>2, <1>3

LEMMA NextIInv == IInv /\ [Next]_vars => IInv'
<1> SUFFICES ASSUME IInv, [Next]_vars PROVE IInv'
  OBVIOUS
<1>1. ASSUME NEW u \in Users, Register(u) \/ RemoveAccount(u) PROVE IInv'
  BY <1>1, RegisterIInv, RemoveAccountIInv
<1>2. ASSUME NEW r \in Requests, Authenticate(r) \/ Create(r) \/ Claim(r) PROVE IInv'
  BY <1>2, AuthenticateIInv, CreateIInv, ClaimIInv
<1>3. ASSUME NEW r \in Requests, GetObject(r) \/ Delete(r) \/ Read(r) \/ Save(r) PROVE IInv'
  BY <1>3, WorkIInv
<1>4. CASE UNCHANGED vars
  BY <1>4 DEF vars, table, requestVars, IInv, TypeOK, ClaimKept, WhoWasThere,
     RecordsOf, RecordsOfBrowser
<1> QED
  BY <1>1, <1>2, <1>3, <1>4 DEF Next, Done
------------------------------------------------------------------------------
\* The inductive invariant holds in every reachable state.
THEOREM Invariance == Spec => []IInv
BY InitIInv, NextIInv, PTL DEF Spec

\* No session belongs to an account that is not there, whatever request meets the
\* removal of the account.
THEOREM TypeCorrect == Spec => []TypeOK
<1>1. IInv => TypeOK
  BY DEF IInv
<1> QED
  BY <1>1, Invariance, PTL

\* A claim that was answered stays in force until the session or the account goes.
THEOREM ClaimsAreKept == Spec => []ClaimKept
<1>1. IInv => ClaimKept
  BY DEF IInv
<1> QED
  BY <1>1, Invariance, PTL

\* No step takes a session from its owner, except the removal of the account.
THEOREM OwnerStays == Spec => OneOwner
<1> DEFINE Kept(s) ==
        row[s] # "absent" =>
          /\ owner'[s] # owner[s] =>
                owner[s] = Nobody \/ (owner'[s] = Nobody /\ account'[owner[s]] = "deleted")
          /\ browser'[s] # browser[s] => browser'[s] = NoId
<1>1. ASSUME IInv, [Next]_vars, NEW s \in Records PROVE Kept(s)
  <2> USE <1>1 DEF IInv, TypeOK
  <2>1. ASSUME NEW u \in Users, Register(u) PROVE Kept(s)
    BY <2>1 DEF Register, table
  <2>2. ASSUME NEW u \in Users, RemoveAccount(u) PROVE Kept(s)
    BY <2>2 DEF RemoveAccount, ReleaseRecords
  <2>3. ASSUME NEW r \in Requests, Create(r) PROVE Kept(s)
    BY <2>3 DEF Create, table
  <2>4. ASSUME NEW r \in Requests, Claim(r) PROVE Kept(s)
    BY <2>4 DEF Claim, Claimable, table
  <2>5. ASSUME NEW r \in Requests,
               Authenticate(r) \/ GetObject(r) \/ Delete(r) \/ Read(r) \/ Save(r)
        PROVE  Kept(s)
    BY <2>5 DEF Authenticate, GetObject, Delete, Read, Save, WriteColumns, table
  <2>6. CASE UNCHANGED vars
    BY <2>6 DEF vars, table
  <2> QED
    BY <2>1, <2>2, <2>3, <2>4, <2>5, <2>6 DEF Next, Done
<1>2. IInv /\ [Next]_vars => [\A s \in Records : Kept(s)]_vars
  BY <1>1
<1> QED
  BY <1>2, Invariance, PTL DEF Spec, OneOwner
=============================================================================
