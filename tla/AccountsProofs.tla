--------------------------- MODULE AccountsProofs ---------------------------
(***************************************************************************)
(* Proofs about Accounts.tla, for every set of users, invites, identities, *)
(* ceremonies and requests, and every set of ceremonies a creation may end.*)
(***************************************************************************)
EXTENDS Accounts, FiniteSetTheorems, TLAPS

-----------------------------------------------------------------------------
(* Types.                                                                  *)

\* An empty database before the process has started has its types.
LEMMA TypeInit == Init => TypeOK
<1> SUFFICES ASSUME Init PROVE TypeOK
  OBVIOUS
<1> USE AccountsAssumption DEF Init
<1>1. /\ users \subseteq Users /\ admins \subseteq users /\ deleted \subseteq Users /\ returned \subseteq deleted
      /\ keyed \subseteq users /\ sessions \subseteq users
      /\ link \in [Idents -> users \cup {None}]
      /\ cer \in [Ceremonies -> Ceremony \cup {None}]
      /\ \A c \in Ceremonies : cer[c] # None => up
  OBVIOUS
<1>2. invite \in [Invites -> InviteRow]
  BY DEF InviteRow
<1>3. /\ req \in [Requests -> Request]
      /\ \A r \in Requests : req[r].pc # "idle" => up
  BY DEF Request, Pcs, Idle
<1>4. enrolled \in [Invites -> 0 .. 2]
  OBVIOUS
<1>5. hist \in [admin : BOOLEAN, overlap : BOOLEAN, withdrawn : BOOLEAN] /\ up \in BOOLEAN
  OBVIOUS
<1> QED
  BY <1>1, <1>2, <1>3, <1>4, <1>5 DEF TypeOK

\* The actions on invites, and the start of the process.
LEMMA TypeInvites ==
    ASSUME TypeOK,
           \/ Start
           \/ \E i \in Invites : Admin(i)
    PROVE  TypeOK'
<1> USE AccountsAssumption
<1>0. [hist EXCEPT !.withdrawn = FALSE] \in [admin : BOOLEAN, overlap : BOOLEAN, withdrawn : BOOLEAN]
  BY DEF TypeOK
<1>00. [hist EXCEPT !.withdrawn = @ \/ users = {}] \in [admin : BOOLEAN, overlap : BOOLEAN, withdrawn : BOOLEAN]
  BY DEF TypeOK
<1>1. CASE Start
  <2>1. invite' \in [Invites -> InviteRow]
    <3>1. [st |-> "open", admin |-> TRUE, forUser |-> None] \in InviteRow
      BY DEF InviteRow
    <3> QED
      BY <1>1, <3>1 DEF TypeOK, Start, NewInvite
  <2> QED
    BY <1>0, <1>1, <2>1 DEF TypeOK, Start
<1>2. ASSUME NEW i \in Invites, Admin(i) PROVE TypeOK'
  <2>1. ASSUME NEW u \in Users \cup {None}, NEW admin \in BOOLEAN,
               InviteCLI(i, admin) \/ CreateInvite(i, u, admin)
        PROVE  TypeOK'
    BY <2>1 DEF TypeOK, InviteCLI, CreateInvite, NewInvite, InviteRow, memory, past
  <2>2. CASE Withdraw(i)
    <3>1. invite' \in [Invites -> InviteRow]
      BY <2>2 DEF TypeOK, Withdraw, Spent, InviteRow
    <3> QED
      BY <1>00, <2>2, <3>1 DEF TypeOK, Withdraw, memory
  <2> QED
    BY <1>2, <2>1, <2>2 DEF Admin, RevokeInvite, ExpireInvite
<1> QED
  BY <1>1, <1>2

\* The actions on ceremonies.
LEMMA TypeCeremonies ==
    ASSUME TypeOK,
           \/ \E c \in Ceremonies : Begin(c)
           \/ \E r \in Requests, c \in Ceremonies : Finish(r, c)
    PROVE  TypeOK'
<1> USE AccountsAssumption
<1>1. ASSUME NEW c \in Ceremonies, Begin(c) PROVE TypeOK'
  <2>1. CASE Lapse(c)
    BY <2>1 DEF TypeOK, Lapse, tables, past
  <2>2. ASSUME NEW i \in Invites, BeginRegistration(c, i) PROVE TypeOK'
    <3>1. cer' \in [Ceremonies -> Ceremony \cup {None}] /\ up
      <4>1. CASE invite[i].forUser = None
        <5>1. [kind |-> "enroll", user |-> None, admin |-> invite[i].admin] \in Ceremony
          BY DEF Ceremony, TypeOK, InviteRow
        <5> QED
          BY <2>2, <4>1, <5>1 DEF BeginRegistration, Put, TypeOK
      <4>2. CASE invite[i].forUser # None
        <5>1. (invite[i].forUser \in admins) \in BOOLEAN
          OBVIOUS
        <5>2. [kind |-> "recover", user |-> invite[i].forUser,
               admin |-> invite[i].forUser \in admins] \in Ceremony
          BY <5>1 DEF Ceremony, TypeOK, InviteRow
        <5> QED
          BY <2>2, <4>2, <5>2 DEF BeginRegistration, Put, TypeOK
      <4> QED
        BY <4>1, <4>2
    <3>2. UNCHANGED <<tables, up, req, past>>
      BY <2>2 DEF BeginRegistration, Put
    <3> QED
      BY <3>1, <3>2 DEF TypeOK, tables, past
  <2>3. ASSUME NEW u \in Users, BeginAddDevice(c, u) PROVE TypeOK'
    BY <2>3 DEF BeginAddDevice, TypeOK, Put, Ceremony, tables, past
  <2>4. CASE BeginLogin(c)
    BY <2>4 DEF BeginLogin, TypeOK, Put, Ceremony, tables, past
  <2>5. CASE BeginOIDC(c)
    BY <2>5 DEF BeginOIDC, TypeOK, Put, Ceremony, tables, past
  <2> QED
    BY <1>1, <2>1, <2>2, <2>3, <2>4, <2>5 DEF Begin
<1>2. ASSUME NEW r \in Requests, NEW c \in Ceremonies, Finish(r, c) PROVE TypeOK'
  <2>1. req' \in [Requests -> Request]
    <3>1. ASSUME NEW i \in Invites, FinishRegistration(r, c, i) PROVE req' \in [Requests -> Request]
      <4>1. cer[c] \in Ceremony /\ cer[c].kind \in Creations
        BY <3>1 DEF FinishRegistration, Take, TypeOK
      <4>2. [Idle EXCEPT !.pc = "consume", !.user = cer[c].user, !.inv = i,
                         !.kind = cer[c].kind, !.admin = cer[c].admin] \in Request
        BY <4>1 DEF Ceremony, Idle, Request, Pcs
      <4> QED
        BY <3>1, <4>2 DEF FinishRegistration, Take, TypeOK
    <3>2. CASE FinishAddDevice(r, c)
      BY <3>2 DEF FinishAddDevice, Take, TypeOK, Ceremony, Idle, Request, Pcs
    <3>3. ASSUME NEW u \in Users, FinishLogin(r, c, u) PROVE req' \in [Requests -> Request]
      BY <3>3 DEF FinishLogin, Take, TypeOK, SignIn, Ceremony, Idle, Request, Pcs
    <3>4. ASSUME NEW x \in Idents, NEW group \in BOOLEAN, FinishOIDC(r, c, x, group)
          PROVE  req' \in [Requests -> Request]
      BY <3>4 DEF FinishOIDC, Take, TypeOK, Ceremony, Idle, Request, Pcs
    <3> QED
      BY <1>2, <3>1, <3>2, <3>3, <3>4 DEF Finish
  <2>2. /\ cer[c] # None /\ cer' = [cer EXCEPT ![c] = None]
        /\ UNCHANGED <<tables, up, past>>
    BY <1>2 DEF Finish, FinishRegistration, FinishAddDevice, FinishLogin, FinishOIDC, Take
  <2> QED
    BY <2>1, <2>2 DEF TypeOK, tables, past
<1> QED
  BY <1>1, <1>2

\* The two ways of CreateUser: a user with an id that is not taken, and a refusal.
CreatesAs(r, u) ==
    /\ u \in Users \ users
    /\ u \notin deleted \/ u = req[r].user
    /\ users' = users \cup {u}
    /\ admins' = IF req[r].admin THEN admins \cup {u} ELSE admins
    /\ Go(r, "create", IF req[r].inv # None THEN Store(r, u)
                       ELSE [req[r] EXCEPT !.user = u, !.pc = "link"])
    /\ hist' = [hist EXCEPT !.admin = @ \/ req[r].admin, !.withdrawn = FALSE]
    /\ returned' = returned \cup {d \in deleted \cap {u} : req[r].kind = "device"}

LEMMA CreateDoes ==
    ASSUME TypeOK, NEW r \in Requests, CreateUser(r)
    PROVE  \/ req[r].user \in users /\ Go(r, "create", Idle) /\ UNCHANGED <<users, admins, hist, returned>>
           \/ \E u : CreatesAs(r, u)
<1>1. req[r].user \in Users \cup {None}
  BY DEF TypeOK, Request
<1>2. CASE req[r].user \in users /\ Go(r, "create", Idle) /\ UNCHANGED <<users, admins, hist, returned>>
  BY <1>2
<1>3. ASSUME NEW u \in IF req[r].user = None THEN Users \ (users \cup deleted \cup {Empty})
                       ELSE {req[r].user} \ users,
             /\ users' = users \cup {u}
             /\ admins' = IF req[r].admin THEN admins \cup {u} ELSE admins
             /\ Go(r, "create", IF req[r].inv # None THEN Store(r, u)
                                ELSE [req[r] EXCEPT !.user = u, !.pc = "link"])
             /\ hist' = [hist EXCEPT !.admin = @ \/ req[r].admin, !.withdrawn = FALSE]
             /\ returned' = returned \cup {d \in deleted \cap {u} : req[r].kind = "device"}
      PROVE  CreatesAs(r, u)
  BY <1>1, <1>3 DEF CreatesAs
<1> QED
  BY <1>2, <1>3 DEF CreateUser

\* The statements of a request.
LEMMA TypeStatement ==
    ASSUME TypeOK, BoundInv, NEW r \in Requests, Statement(r)
    PROVE  TypeOK'
<1> USE AccountsAssumption
<1> DEFINE Hist == [admin : BOOLEAN, overlap : BOOLEAN, withdrawn : BOOLEAN]
<1>0. req[r] \in Request /\ Idle \in Request
  BY DEF TypeOK, Request, Pcs, Idle
<1>00. ASSUME NEW pc \in Pcs PROVE To(r, pc) \in Request
  BY <1>0 DEF To, Request
<1>01. \A u \in Users \cup {None} : Store(r, u) \in Request /\ SignIn(u) \in Request
  BY <1>0 DEF Store, SignIn, Idle, Request, Pcs
<1>1. ASSUME req[r].inv # None, ConsumeInvite(r) PROVE TypeOK'
  <2>1. req' \in [Requests -> Request]
    <3>1. To(r, "create") \in Request /\ Store(r, req[r].user) \in Request
      BY <1>0, <1>00, <1>01 DEF Pcs, Request
    <3> QED
      BY <1>0, <1>1, <3>1 DEF ConsumeInvite, Go, TypeOK
  <2>2. Spent \in InviteRow
    BY DEF Spent, InviteRow
  <2>3. invite' \in [Invites -> InviteRow]
    BY <1>1, <2>2 DEF ConsumeInvite, TypeOK
  <2> QED
    BY <1>1, <2>1, <2>3 DEF ConsumeInvite, Go, TypeOK, memory, past
<1>2. CASE CreateUser(r)
  <2>1. CASE req[r].user \in users /\ Go(r, "create", Idle) /\ UNCHANGED <<users, admins, hist, returned>>
    BY <1>0, <1>2, <2>1 DEF CreateUser, Go, TypeOK, memory
  <2>2. ASSUME NEW u, CreatesAs(r, u) PROVE TypeOK'
    <3>1. req' \in [Requests -> Request]
      <4>1. Store(r, u) \in Request /\ [req[r] EXCEPT !.user = u, !.pc = "link"] \in Request
        BY <1>0, <1>01, <2>2 DEF CreatesAs, Request, Pcs
      <4> QED
        BY <2>2, <4>1 DEF CreatesAs, Go, TypeOK
    <3>2. hist' \in Hist
      BY <1>0, <2>2 DEF CreatesAs, TypeOK, Request
    <3>3. admins' \subseteq users' /\ users' = users \cup {u} /\ u \in Users
      BY <2>2 DEF CreatesAs, TypeOK
    <3>4. link' \in [Idents -> users' \cup {None}] /\ returned' \subseteq deleted
      BY <1>2, <2>2, <3>3 DEF CreatesAs, CreateUser, TypeOK
    <3> QED
      BY <1>2, <2>2, <3>1, <3>2, <3>3, <3>4 DEF CreatesAs, CreateUser, Go, TypeOK, memory
  <2> QED
    BY <1>2, <2>1, <2>2, CreateDoes
<1>3. CASE AddCredential(r)
  <2>1. req' \in [Requests -> Request]
    <3>1. SignIn(req[r].user) \in Request
      BY <1>0, <1>01 DEF Request
    <3> QED
      BY <1>0, <1>3, <3>1 DEF AddCredential, Go, TypeOK
  <2>2. enrolled' \in [Invites -> 0 .. 2] /\ keyed' \subseteq users
    BY <1>3 DEF AddCredential, TypeOK
  <2> QED
    BY <1>3, <2>1, <2>2 DEF AddCredential, Go, TypeOK, memory
<1>4. CASE IssueSession(r)
  <2>1. req' \in [Requests -> Request]
    BY <1>0, <1>4 DEF IssueSession, Go, Idle, Request, Pcs, TypeOK
  <2> QED
    BY <1>4, <2>1 DEF IssueSession, Go, TypeOK, memory, past
<1>5. ASSUME req[r].idn # None, Resolve(r) PROVE TypeOK'
  <2> DEFINE u == link[req[r].idn]
  <2>1. u \in Users \cup {None}
    BY <1>0, <1>5 DEF Request, TypeOK
  <2>2. /\ To(r, "first?") \in Request
        /\ \A pc \in Pcs : [SignIn(u) EXCEPT !.pc = pc] \in Request
    <3> HIDE DEF u
    <3>1. To(r, "first?") \in Request
      BY <1>00 DEF Pcs
    <3>2. \A pc \in Pcs : [SignIn(u) EXCEPT !.pc = pc] \in Request
      BY <1>01, <2>1 DEF Request
    <3> QED
      BY <3>1, <3>2
  <2>3. req' \in [Requests -> Request]
    <3>1. CASE u = None
      BY <1>5, <2>2, <3>1 DEF Resolve, Go, TypeOK
    <3>2. CASE u # None
      <4> DEFINE sync == HasAdminGroups /\ (u \in admins) # req[r].admin
                 pc == CASE ~sync -> "session" [] req[r].admin -> "promote" [] OTHER -> "demote?"
      <4>1. pc \in Pcs
        BY DEF Pcs
      <4>2. [SignIn(u) EXCEPT !.pc = pc] \in Request
        BY <2>2, <4>1
      <4>3. req' = [req EXCEPT ![r] = [SignIn(u) EXCEPT !.pc = pc]]
        BY <1>5, <3>2 DEF Resolve, Go
      <4> QED
        BY <4>2, <4>3 DEF TypeOK
    <3> QED
      BY <3>1, <3>2
  <2>4. hist' \in Hist
    BY <1>5 DEF Resolve, NoteOverlap, TypeOK
  <2> QED
    BY <1>5, <2>3, <2>4 DEF Resolve, Go, TypeOK, tables, memory
<1>6. ASSUME req[r].idn # None, LinkIdentity(r) PROVE TypeOK'
  <2>1. req' \in [Requests -> Request]
    <3>1. SignIn(req[r].user) \in Request
      BY <1>0, <1>01 DEF Request
    <3> QED
      BY <1>0, <1>6, <3>1 DEF LinkIdentity, Go, TypeOK
  <2>2. link' \in [Idents -> users \cup {None}]
    BY <1>6 DEF LinkIdentity, TypeOK
  <2> QED
    BY <1>6, <2>1, <2>2 DEF LinkIdentity, Go, TypeOK, memory, past
<1>7. CASE CountForDemotion(r)
  <2>1. req' \in [Requests -> Request]
    BY <1>0, <1>7 DEF CountForDemotion, Go, To, Request, Pcs, TypeOK
  <2> QED
    BY <1>7, <2>1 DEF CountForDemotion, Go, TypeOK, tables, memory, past
<1>8. CASE SetUserAdmin(r)
  <2>1. req' \in [Requests -> Request]
    BY <1>0, <1>8 DEF SetUserAdmin, Go, To, Request, Pcs, TypeOK
  <2>2. hist' \in Hist
    BY <1>8 DEF SetUserAdmin, TypeOK
  <2>3. admins' \subseteq users
    BY <1>8 DEF SetUserAdmin, TypeOK
  <2> QED
    BY <1>8, <2>1, <2>2, <2>3 DEF SetUserAdmin, Go, TypeOK, memory
<1>9. CASE CountUsers(r)
  <2>1. req' \in [Requests -> Request]
    BY <1>0, <1>9 DEF CountUsers, Go, To, Request, Pcs, TypeOK
  <2> QED
    BY <1>9, <2>1 DEF CountUsers, Go, TypeOK, tables, memory, past
<1>10. CASE CountForDeletion(r)
  <2>1. req' \in [Requests -> Request]
    BY <1>0, <1>10 DEF CountForDeletion, Go, To, Idle, Request, Pcs, TypeOK
  <2> QED
    BY <1>10, <2>1 DEF CountForDeletion, Go, TypeOK, tables, memory, past
<1>11. CASE DeleteUser(r)
  <2>1. req' \in [Requests -> Request]
    BY <1>0, <1>11 DEF DeleteUser, Go, Idle, Request, Pcs, TypeOK
  <2>2. Spent \in InviteRow
    BY DEF Spent, InviteRow
  <2>3. invite' \in [Invites -> InviteRow]
    BY <1>11, <2>2 DEF DeleteUser, TypeOK
  <2>4. link' \in [Idents -> users' \cup {None}]
    BY <1>11 DEF DeleteUser, TypeOK
  <2>5. req[r].user \in Users
    BY <1>11 DEF DeleteUser, Go, BoundInv
  <2> QED
    BY <1>11, <2>1, <2>3, <2>4, <2>5 DEF DeleteUser, Go, TypeOK, memory
<1> QED
  BY <1>1, <1>2, <1>3, <1>4, <1>5, <1>6, <1>7, <1>8, <1>9, <1>10, <1>11 DEF Statement

\* The look-up of the user to delete, the end of a session and a crash.
LEMMA TypeOthers ==
    ASSUME TypeOK,
           \/ \E r \in Requests, u \in Users : GetTarget(r, u)
           \/ \E u \in Users : EndSession(u)
           \/ Crash
    PROVE  TypeOK'
<1>1. ASSUME NEW r \in Requests, NEW u \in Users, GetTarget(r, u) PROVE TypeOK'
  <2>1. /\ [Idle EXCEPT !.pc = "count", !.user = u] \in Request
        /\ [Idle EXCEPT !.pc = "delete", !.user = u] \in Request
    BY DEF Idle, Request, Pcs
  <2>2. req' \in [Requests -> Request]
    BY <1>1, <2>1 DEF GetTarget, Go, TypeOK
  <2>3. hist' \in [admin : BOOLEAN, overlap : BOOLEAN, withdrawn : BOOLEAN]
    BY <1>1 DEF GetTarget, NoteOverlap, TypeOK
  <2> QED
    BY <1>1, <2>2, <2>3 DEF GetTarget, RequireAdmin, TypeOK, tables, memory
<1>2. ASSUME NEW u \in Users, EndSession(u) PROVE TypeOK'
  BY <1>2 DEF EndSession, TypeOK, memory, past
<1>3. CASE Crash
  <2>1. req' \in [Requests -> Request] /\ \A r \in Requests : req'[r].pc = "idle"
    BY <1>3 DEF Crash, Idle, Request, Pcs
  <2>2. /\ cer' \in [Ceremonies -> Ceremony \cup {None}]
        /\ \A c \in Ceremonies : cer'[c] = None
    BY <1>3 DEF Crash
  <2>3. up' \in BOOLEAN
    BY <1>3 DEF Crash
  <2> QED
    BY <1>3, <2>1, <2>2, <2>3 DEF Crash, TypeOK, tables, past
<1> QED
  BY <1>1, <1>2, <1>3

\* Every step, the type invariant taken with what the requests know (a deletion
\* names a user).
LEMMA TypeStep ==
    ASSUME TypeOK, BoundInv, [Next]_vars
    PROVE  TypeOK'
<1>1. CASE UNCHANGED vars
  BY <1>1 DEF TypeOK, vars, tables, memory, past
<1>2. CASE Next
  BY <1>2, TypeInvites, TypeCeremonies, TypeStatement, TypeOthers DEF Next
<1> QED
  BY <1>1, <1>2

-----------------------------------------------------------------------------
(* What the steps do, in the terms the other invariants need.              *)

\* Beginning a ceremony, or its end, touches nothing but the ceremony.
LEMMA BeginKeeps ==
    ASSUME NEW c \in Ceremonies, Begin(c)
    PROVE  UNCHANGED <<tables, up, req, past>>
  BY DEF Begin, BeginRegistration, BeginAddDevice, BeginLogin, BeginOIDC, Lapse, Put

\* A finish takes the ceremony away and hands what it holds to one idle request; the
\* database is as it was.
LEMMA FinishDoes ==
    ASSUME TypeOK, NEW r \in Requests, NEW c \in Ceremonies, Finish(r, c)
    PROVE  /\ UNCHANGED <<tables, up, past>>
           /\ cer' = [cer EXCEPT ![c] = None]
           /\ req[r].pc = "idle"
           /\ \A q \in Requests \ {r} : req'[q] = req[q]
           /\ \/ /\ req'[r].pc = "consume" /\ req'[r].inv # None /\ cer[c] # None
                 /\ req'[r].user = cer[c].user /\ req'[r].kind = cer[c].kind
              \/ req'[r].pc \in {"credential", "session"} /\ req'[r].inv = None
              \/ req'[r].pc = "resolve" /\ req'[r].inv = None /\ req'[r].user = None /\ req'[r].kind = None
<1> USE AccountsAssumption DEF TypeOK, Take, Idle
<1>1. ASSUME NEW i \in Invites, FinishRegistration(r, c, i)
      PROVE  /\ req'[r].pc = "consume" /\ req'[r].inv # None /\ cer[c] # None
             /\ req'[r].user = cer[c].user /\ req'[r].kind = cer[c].kind
  BY <1>1 DEF FinishRegistration
<1>2. CASE FinishAddDevice(r, c)
  BY <1>2 DEF FinishAddDevice
<1>3. ASSUME NEW u \in Users, FinishLogin(r, c, u) PROVE req'[r].pc = "session" /\ req'[r].inv = None
  BY <1>3 DEF FinishLogin, SignIn
<1>4. ASSUME NEW x \in Idents, NEW group \in BOOLEAN, FinishOIDC(r, c, x, group)
      PROVE  req'[r].pc = "resolve" /\ req'[r].inv = None /\ req'[r].user = None /\ req'[r].kind = None
  BY <1>4 DEF FinishOIDC
<1>5. /\ UNCHANGED <<tables, up, past>>
      /\ cer' = [cer EXCEPT ![c] = None]
      /\ req[r].pc = "idle"
      /\ \A q \in Requests \ {r} : req'[q] = req[q]
  BY DEF Finish, FinishRegistration, FinishAddDevice, FinishLogin, FinishOIDC
<1> QED
  BY <1>1, <1>2, <1>3, <1>4, <1>5 DEF Finish

\* A statement changes the request it belongs to and no other, and no ceremony.
LEMMA StatementOwn ==
    ASSUME TypeOK, NEW r \in Requests, Statement(r)
    PROVE  /\ \A q \in Requests \ {r} : req'[q] = req[q]
           /\ req[r].pc # "idle" /\ UNCHANGED memory
  BY DEF TypeOK, Statement, ConsumeInvite, CreateUser, AddCredential, IssueSession, Resolve,
         LinkIdentity, CountForDemotion, SetUserAdmin, CountUsers, CountForDeletion, DeleteUser, Go

\* What is left to do, field by field.
LEMMA Fields ==
    ASSUME NEW r, NEW u
    PROVE  /\ Store(r, u).pc = "credential" /\ Store(r, u).user = u /\ Store(r, u).inv = req[r].inv
           /\ SignIn(u).pc = "session" /\ SignIn(u).user = u /\ SignIn(u).inv = None
           /\ Idle.pc = "idle" /\ Idle.inv = None
  BY DEF Store, SignIn, Idle

\* Where the statements leave a request that hand it on to the passkey or the session.
LEMMA HandedOn ==
    ASSUME TypeOK, NEW r \in Requests
    PROVE  /\ ConsumeInvite(r) => /\ req[r].pc = "consume"
                                  /\ \/ req'[r].pc = "idle" /\ req'[r].inv = None
                                     \/ /\ req'[r].pc \in {"create", "credential"}
                                        /\ req'[r].inv = req[r].inv
           /\ AddCredential(r) => /\ req[r].pc = "credential"
                                  /\ req'[r].pc \in {"idle", "session"} /\ req'[r].inv = None
           /\ LinkIdentity(r) => /\ req[r].pc = "link"
                                 /\ req'[r].pc \in {"idle", "session"} /\ req'[r].inv = None
           /\ \A u : CreatesAs(r, u) => /\ req[r].pc = "create"
                                        /\ req'[r].pc \in {"credential", "link"}
                                        /\ req'[r].inv = req[r].inv
<1> USE DEF TypeOK
<1>0. req[r] \in Request /\ DOMAIN req = Requests
  OBVIOUS
<1>1. ASSUME NEW from, NEW next, Go(r, from, next) PROVE req[r].pc = from /\ req'[r] = next
  BY <1>0, <1>1 DEF Go
<1>2. To(r, "create").pc = "create" /\ To(r, "create").inv = req[r].inv
  BY <1>0 DEF To, Request
<1>3. ASSUME ConsumeInvite(r)
      PROVE  /\ req[r].pc = "consume"
             /\ \/ req'[r].pc = "idle" /\ req'[r].inv = None
                \/ req'[r].pc \in {"create", "credential"} /\ req'[r].inv = req[r].inv
  <2>1. \/ Go(r, "consume", Idle) \/ Go(r, "consume", Store(r, req[r].user))
        \/ Go(r, "consume", To(r, "create"))
    BY <1>3 DEF ConsumeInvite
  <2> QED
    BY <1>1, <1>2, <2>1, Fields
<1>4. ASSUME AddCredential(r)
      PROVE  req[r].pc = "credential" /\ req'[r].pc \in {"idle", "session"} /\ req'[r].inv = None
  <2>1. Go(r, "credential", Idle) \/ Go(r, "credential", SignIn(req[r].user))
    BY <1>4 DEF AddCredential
  <2> QED
    BY <1>1, <2>1, Fields
<1>5. ASSUME LinkIdentity(r)
      PROVE  req[r].pc = "link" /\ req'[r].pc \in {"idle", "session"} /\ req'[r].inv = None
  <2>1. Go(r, "link", Idle) \/ Go(r, "link", SignIn(req[r].user))
    BY <1>5 DEF LinkIdentity
  <2> QED
    BY <1>1, <2>1, Fields
<1>6. ASSUME NEW u, CreatesAs(r, u)
      PROVE  /\ req[r].pc = "create" /\ req'[r].pc \in {"credential", "link"}
             /\ req'[r].inv = req[r].inv
  <2>1. \/ Go(r, "create", Store(r, u)) \/ Go(r, "create", [req[r] EXCEPT !.user = u, !.pc = "link"])
    BY <1>6 DEF CreatesAs
  <2>2. [req[r] EXCEPT !.user = u, !.pc = "link"].pc = "link"
        /\ [req[r] EXCEPT !.user = u, !.pc = "link"].inv = req[r].inv
    BY <1>0 DEF Request
  <2>3. CASE Go(r, "create", Store(r, u))
    BY <1>1, <2>3, Fields
  <2>4. CASE Go(r, "create", [req[r] EXCEPT !.user = u, !.pc = "link"])
    <3> DEFINE next == [req[r] EXCEPT !.user = u, !.pc = "link"]
    <3>1. req[r].pc = "create" /\ req'[r] = next
      BY <1>1, <2>4
    <3> QED
      BY <2>2, <3>1
  <2> QED
    BY <2>1, <2>3, <2>4
<1> QED
  BY <1>3, <1>4, <1>5, <1>6

-----------------------------------------------------------------------------
(* An invite enrolls one passkey.                                          *)

\* A step that leaves the invites and their passkeys alone and has no request begin
\* to redeem one.
LEMMA RedeemFrame ==
    ASSUME RedeemInv, UNCHANGED <<invite, enrolled>>,
           \A i \in Invites, q \in Requests : Redeeming(q, i)' => Redeeming(q, i)
    PROVE  RedeemInv'
  BY DEF RedeemInv

\* ConsumeInvite makes its request the only one that redeems the invite; AddCredential
\* ends that, with one more passkey.  An invite is never opened again.
LEMMA RedeemStep ==
    ASSUME TypeOK, BoundInv, RedeemInv, [Next]_vars
    PROVE  RedeemInv'
<1> USE AccountsAssumption
<1>1. CASE UNCHANGED vars
  BY <1>1, RedeemFrame DEF vars, tables, past, Redeeming
<1>2. ASSUME NEW i \in Invites, NEW u, NEW admin, NewInvite(i, u, admin), UNCHANGED <<req, enrolled>>
      PROVE  RedeemInv'
  BY <1>2 DEF NewInvite, TypeOK, RedeemInv, Redeeming
<1>3. CASE Start
  <2>1. CASE users = {}
    BY <1>2, <1>3, <2>1 DEF Start
  <2>2. CASE users # {}
    BY <1>3, <2>2, RedeemFrame DEF Start, Redeeming
  <2> QED
    BY <2>1, <2>2
<1>4. ASSUME NEW i \in Invites, Admin(i) PROVE RedeemInv'
  <2>1. ASSUME Withdraw(i) PROVE RedeemInv'
    BY <2>1 DEF Withdraw, Spent, TypeOK, RedeemInv, Redeeming
  <2>2. ASSUME NEW admin, InviteCLI(i, admin) PROVE RedeemInv'
    BY <2>2, <1>2 DEF InviteCLI, past
  <2>3. ASSUME NEW u, NEW admin, CreateInvite(i, u, admin) PROVE RedeemInv'
    BY <2>3, <1>2 DEF CreateInvite, past
  <2> QED
    BY <1>4, <2>1, <2>2, <2>3 DEF Admin, RevokeInvite, ExpireInvite
<1>5. ASSUME NEW c \in Ceremonies, Begin(c) PROVE RedeemInv'
  BY <1>5, BeginKeeps, RedeemFrame DEF tables, past, Redeeming
<1>6. ASSUME NEW r \in Requests, NEW c \in Ceremonies, Finish(r, c) PROVE RedeemInv'
  <2>1. \A i \in Invites, q \in Requests : Redeeming(q, i)' => Redeeming(q, i)
    BY <1>6, FinishDoes DEF Redeeming
  <2> QED
    BY <1>6, <2>1, FinishDoes, RedeemFrame DEF tables, past
<1>7. ASSUME NEW r \in Requests, Statement(r) PROVE RedeemInv'
  <2> USE DEF TypeOK
  <2>0. req[r] \in Request
    OBVIOUS
  <2>1. ASSUME req[r].inv # None, ConsumeInvite(r) PROVE RedeemInv'
    <3>1. CASE invite[req[r].inv].st = "open"
      <4>0. PICK j \in Invites : j = req[r].inv
        BY <2>0, <2>1 DEF Request
      <4>1. /\ invite'[j].st = "spent" /\ UNCHANGED enrolled
            /\ \A i \in Invites \ {j} : invite'[i] = invite[i]
        BY <2>1, <3>1, <4>0 DEF ConsumeInvite, Spent, past
      <4>2. \A i \in Invites \ {j}, q \in Requests : Redeeming(q, i)' => Redeeming(q, i)
        BY <2>1, <4>0, <1>7, StatementOwn, HandedOn DEF Redeeming
      <4>3. enrolled[j] = 0 /\ \A q \in Requests : ~Redeeming(q, j)
        BY <3>1, <4>0 DEF RedeemInv
      <4>4. \A q \in Requests : Redeeming(q, j)' => q = r
        BY <4>3, <1>7, StatementOwn DEF Redeeming
      <4> QED
        BY <4>1, <4>2, <4>3, <4>4 DEF RedeemInv
    <3>2. CASE invite[req[r].inv].st # "open"
      BY <2>0, <2>1, <3>2, RedeemFrame DEF ConsumeInvite, Go, Idle, Redeeming, past
    <3> QED
      BY <3>1, <3>2
  <2>2. CASE CreateUser(r)
    <3>1. \A i \in Invites, q \in Requests : Redeeming(q, i)' => Redeeming(q, i)
      <4>1. req'[r] = Idle \/ (req[r].pc = "create" /\ req'[r].inv = req[r].inv)
        BY <2>2, CreateDoes, HandedOn DEF Go
      <4> QED
        BY <1>7, <4>1, StatementOwn DEF Redeeming, Idle
    <3> QED
      BY <2>2, <3>1, RedeemFrame DEF CreateUser
  <2>3. CASE AddCredential(r)
    <3>1. CASE req[r].user \in users /\ req[r].inv # None
      <4>0. PICK j \in Invites : j = req[r].inv
        BY <2>0, <3>1 DEF Request
      <4>1. /\ Redeeming(r, j)
            /\ UNCHANGED invite /\ req'[r].pc = "session"
        <5>1. Go(r, "credential", SignIn(req[r].user)) /\ UNCHANGED invite
          BY <2>3, <3>1 DEF AddCredential
        <5>2. req[r].pc = "credential" /\ req'[r] = SignIn(req[r].user)
          BY <5>1 DEF Go
        <5> QED
          BY <4>0, <5>1, <5>2, Fields DEF Redeeming
      <4>2. enrolled[j] = 0 /\ \A q \in Requests : Redeeming(q, j) => q = r
        BY <4>1 DEF RedeemInv
      <4>3. /\ enrolled'[j] = 1 /\ invite'[j].st = "spent"
            /\ \A i \in Invites \ {j} : enrolled'[i] = enrolled[i]
        BY <2>3, <3>1, <4>0, <4>1, <4>2 DEF AddCredential, RedeemInv
      <4>4. \A i \in Invites, q \in Requests : Redeeming(q, i)' => q # r /\ Redeeming(q, i)
        BY <1>7, <4>1, StatementOwn DEF Redeeming
      <4> QED
        BY <4>1, <4>2, <4>3, <4>4 DEF RedeemInv
    <3>2. CASE ~(req[r].user \in users /\ req[r].inv # None)
      <4>1. req'[r] = Idle
        BY <2>3, <3>2 DEF AddCredential, Go
      <4>2. \A i \in Invites, q \in Requests : Redeeming(q, i)' => Redeeming(q, i)
        BY <1>7, <4>1, StatementOwn DEF Redeeming, Idle
      <4>3. enrolled' = enrolled
        BY <2>3, <3>2 DEF AddCredential
      <4> QED
        BY <2>3, <4>2, <4>3, RedeemFrame DEF AddCredential
    <3> QED
      BY <3>1, <3>2
  <2>4. ASSUME UNCHANGED enrolled, req'[r].pc \notin {"create", "credential"},
               \A i \in Invites : invite'[i].st # invite[i].st => invite'[i].st = "spent"
        PROVE  RedeemInv'
    <3>1. \A i \in Invites, q \in Requests : Redeeming(q, i)' => Redeeming(q, i)
      BY <1>7, <2>4, StatementOwn DEF Redeeming
    <3> QED
      BY <2>4, <3>1 DEF RedeemInv
  <2>5. CASE IssueSession(r)
    BY <2>4, <2>5 DEF IssueSession, Go, Idle, past
  <2>6. ASSUME req[r].idn # None, Resolve(r) PROVE RedeemInv'
    BY <2>0, <2>4, <2>6 DEF Resolve, Go, To, SignIn, Idle, Request, tables
  <2>7. ASSUME req[r].idn # None, LinkIdentity(r) PROVE RedeemInv'
    BY <2>4, <2>7, HandedOn DEF LinkIdentity, past
  <2>8. CASE CountForDemotion(r)
    BY <2>0, <2>4, <2>8 DEF CountForDemotion, Go, To, Request, tables, past
  <2>9. CASE SetUserAdmin(r)
    BY <2>0, <2>4, <2>9 DEF SetUserAdmin, Go, To, Request
  <2>10. CASE CountUsers(r)
    <3>1. req[r].inv = None
      BY <2>10 DEF CountUsers, Go, BoundInv
    <3>2. \A i \in Invites, q \in Requests : Redeeming(q, i)' => Redeeming(q, i)
      <4>1. req'[r].inv = None
        BY <2>0, <2>10, <3>1 DEF CountUsers, Go, To, Request
      <4> QED
        BY <1>7, <4>1, StatementOwn DEF Redeeming
    <3> QED
      BY <2>10, <3>2, RedeemFrame DEF CountUsers, tables, past
  <2>11. CASE CountForDeletion(r)
    BY <2>0, <2>4, <2>11 DEF CountForDeletion, Go, To, Idle, Request, tables, past
  <2>12. CASE DeleteUser(r)
    BY <2>0, <2>4, <2>12 DEF DeleteUser, Go, Idle, Spent
  <2> QED
    BY <1>7, <2>1, <2>2, <2>3, <2>5, <2>6, <2>7, <2>8, <2>9, <2>10, <2>11, <2>12 DEF Statement
<1>8. ASSUME NEW r \in Requests, NEW u \in Users, GetTarget(r, u) PROVE RedeemInv'
  <2>1. \A i \in Invites, q \in Requests : Redeeming(q, i)' => Redeeming(q, i)
    BY <1>8 DEF GetTarget, Go, Idle, Redeeming, TypeOK
  <2> QED
    BY <1>8, <2>1, RedeemFrame DEF GetTarget, tables
<1>9. ASSUME NEW u \in Users, EndSession(u) PROVE RedeemInv'
  BY <1>9, RedeemFrame DEF EndSession, Redeeming, past
<1>10. CASE Crash
  BY <1>10, RedeemFrame DEF Crash, Idle, Redeeming, tables, past
<1> QED
  BY <1>1, <1>3, <1>4, <1>5, <1>6, <1>7, <1>8, <1>9, <1>10 DEF Next

-----------------------------------------------------------------------------
(* What ceremonies and requests know.                                      *)

\* A ceremony learns its user when it begins, a request from the ceremony it finishes;
\* only somebody who exists, and has a name in the path, is deleted.
LEMMA BoundStep ==
    ASSUME TypeOK, BoundInv, [Next]_vars
    PROVE  BoundInv'
<1> USE AccountsAssumption
<1> DEFINE CerOK(c) == cer[c] # None /\ cer[c].user \notin {None, Empty} =>
                          cer[c].kind \in {"recover", "device"}
           ReqOK(r) ==
                 /\ req[r].pc = "consume" => req[r].inv # None
                 /\ req[r].inv # None => req[r].pc \in {"consume", "create", "credential"}
                 /\ req[r].pc \in {"consume", "create"} /\ req[r].user \notin {None, Empty} =>
                      req[r].kind \in {"recover", "device"}
                 /\ req[r].pc = "create" => ~Existing(r)
                 /\ req[r].pc \in {"resolve", "first?"} => req[r].user = None /\ req[r].kind = None
                 /\ req[r].pc \in {"count", "delete"} => req[r].user \in Users \ {Empty}
<1>a. BoundInv <=> /\ \A c \in Ceremonies : CerOK(c)
                   /\ \A r \in Requests : ReqOK(r)
                   /\ Empty \notin deleted
  BY DEF BoundInv
<1>b. BoundInv' <=> /\ \A c \in Ceremonies : CerOK(c)'
                    /\ \A r \in Requests : ReqOK(r)'
                    /\ Empty \notin deleted'
  BY DEF BoundInv
<1>c. ASSUME NEW c \in Ceremonies, cer'[c] = cer[c] PROVE CerOK(c)'
  BY <1>a, <1>c
<1>d. ASSUME NEW r \in Requests, req'[r] = req[r] PROVE ReqOK(r)'
  BY <1>a, <1>d DEF Existing
<1> HIDE DEF CerOK, ReqOK
<1>1. ASSUME UNCHANGED <<cer, req, deleted>> PROVE BoundInv'
  BY <1>1, <1>a, <1>b, <1>c, <1>d
<1>2. CASE UNCHANGED vars
  BY <1>1, <1>2 DEF vars, memory, past
<1>3. CASE Start
  BY <1>1, <1>3 DEF Start
<1>4. ASSUME NEW i \in Invites, Admin(i) PROVE BoundInv'
  BY <1>1, <1>4 DEF Admin, InviteCLI, CreateInvite, RevokeInvite, ExpireInvite, Withdraw, memory, past
<1>5. ASSUME NEW c \in Ceremonies, Begin(c) PROVE BoundInv'
  <2>1. UNCHANGED <<deleted, req>>
    BY <1>5, BeginKeeps DEF past
  <2>2. \A b \in Ceremonies \ {c} : cer'[b] = cer[b]
    BY <1>5 DEF Begin, BeginRegistration, BeginAddDevice, BeginLogin, BeginOIDC, Lapse, Put, TypeOK
  <2>3. CerOK(c)'
    <3> USE DEF CerOK, TypeOK
    <3>1. CASE Lapse(c)
      BY <3>1 DEF Lapse
    <3>2. ASSUME NEW i \in Invites, BeginRegistration(c, i) PROVE CerOK(c)'
      BY <3>2 DEF BeginRegistration, Put
    <3>3. ASSUME NEW u \in Users, BeginAddDevice(c, u) PROVE CerOK(c)'
      BY <3>3 DEF BeginAddDevice, Put
    <3>4. CASE BeginLogin(c) \/ BeginOIDC(c)
      BY <3>4 DEF BeginLogin, BeginOIDC, Put
    <3> QED
      BY <1>5, <3>1, <3>2, <3>3, <3>4 DEF Begin
  <2> QED
    BY <1>a, <1>b, <1>c, <1>d, <2>1, <2>2, <2>3
<1>6. ASSUME NEW r \in Requests, NEW c \in Ceremonies, Finish(r, c) PROVE BoundInv'
  <2>1. /\ UNCHANGED deleted
        /\ \A b \in Ceremonies \ {c} : cer'[b] = cer[b]
        /\ \A q \in Requests \ {r} : req'[q] = req[q]
    BY <1>6, FinishDoes DEF past, TypeOK
  <2>2. CerOK(c)'
    BY <1>6, FinishDoes DEF CerOK, TypeOK
  <2>3. ReqOK(r)'
    <3>1. \/ /\ req'[r].pc = "consume" /\ req'[r].inv # None /\ cer[c] # None
             /\ req'[r].user = cer[c].user /\ req'[r].kind = cer[c].kind
          \/ req'[r].pc \in {"credential", "session"} /\ req'[r].inv = None
          \/ req'[r].pc = "resolve" /\ req'[r].inv = None /\ req'[r].user = None /\ req'[r].kind = None
      BY <1>6, FinishDoes
    <3> QED
      BY <1>a, <3>1 DEF ReqOK, CerOK
  <2> QED
    BY <1>a, <1>b, <1>c, <1>d, <2>1, <2>2, <2>3
<1>7. ASSUME NEW r \in Requests, Statement(r) PROVE BoundInv'
  <2>0. req[r] \in Request /\ ReqOK(r)
    BY <1>a DEF TypeOK
  <2>1. UNCHANGED cer /\ \A q \in Requests \ {r} : req'[q] = req[q]
    BY <1>7, StatementOwn DEF memory
  <2>2. Empty \notin deleted'
    <3>1. CASE DeleteUser(r)
      BY <1>a, <2>0, <3>1 DEF DeleteUser, Go, ReqOK
    <3> QED
      BY <1>7, <1>a, <3>1
      DEF Statement, ConsumeInvite, CreateUser, AddCredential, IssueSession, Resolve, LinkIdentity,
          CountForDemotion, SetUserAdmin, CountUsers, CountForDeletion, past
  <2>3. ReqOK(r)'
    <3> USE <2>0 DEF ReqOK, Go, To, Request, TypeOK
    <3>1. ASSUME req'[r].pc \notin {"consume", "create", "count", "delete", "resolve", "first?"},
                 req'[r].inv = None
          PROVE  ReqOK(r)'
      BY <3>1 DEF Existing
    <3>a. ASSUME req'[r] = Idle PROVE ReqOK(r)'
      BY <3>1, <3>a DEF Idle
    <3>2. ASSUME req[r].inv # None, ConsumeInvite(r) PROVE ReqOK(r)'
      <4>1. CASE req'[r] = Idle
        BY <3>a, <4>1
      <4>2. CASE Existing(r) /\ req'[r] = Store(r, req[r].user)
        BY <4>2 DEF Store, Idle
      <4>3. CASE ~Existing(r) /\ req'[r] = To(r, "create") /\ req[r].pc = "consume"
        BY <4>3 DEF Existing
      <4> QED
        BY <3>2, <4>1, <4>2, <4>3 DEF ConsumeInvite
    <3>3. CASE CreateUser(r)
      <4>1. ASSUME NEW u, CreatesAs(r, u) PROVE ReqOK(r)'
        BY <4>1 DEF CreatesAs, Store, Idle, Existing
      <4>2. CASE Go(r, "create", Idle)
        BY <3>a, <4>2
      <4> QED
        BY <3>3, <4>1, <4>2, CreateDoes
    <3>4. CASE AddCredential(r)
      BY <3>1, <3>4, HandedOn
    <3>5. CASE IssueSession(r)
      BY <3>a, <3>5 DEF IssueSession
    <3>6. ASSUME req[r].idn # None, Resolve(r) PROVE ReqOK(r)'
      <4>1. CASE link[req[r].idn] = None
        <5>1. req[r].pc = "resolve" /\ req'[r] = To(r, "first?")
          BY <3>6, <4>1 DEF Resolve
        <5> QED
          BY <5>1
      <4>2. CASE link[req[r].idn] # None
        <5>1. /\ req'[r].pc \in {"session", "promote", "demote?"}
              /\ req'[r].inv = None
          BY <3>6, <4>2 DEF Resolve, SignIn, Idle
        <5> QED
          BY <3>1, <5>1
      <4> QED
        BY <4>1, <4>2
    <3>7. ASSUME req[r].idn # None, LinkIdentity(r) PROVE ReqOK(r)'
      BY <3>1, <3>7, HandedOn
    <3>8. CASE CountForDemotion(r)
      BY <3>1, <3>8 DEF CountForDemotion
    <3>9. CASE SetUserAdmin(r)
      BY <3>1, <3>9 DEF SetUserAdmin
    <3>10. CASE CountUsers(r)
      <4>1. /\ req[r].inv = None /\ req'[r].inv = req[r].inv /\ req'[r].pc = "create"
            /\ req'[r].user = req[r].user /\ req'[r].kind = req[r].kind
        BY <3>10 DEF CountUsers
      <4>2. req[r].kind = None /\ req[r].user = None
        BY <3>10 DEF CountUsers
      <4> QED
        BY <4>1, <4>2 DEF Existing
    <3>11. CASE CountForDeletion(r)
      BY <3>a, <3>11 DEF CountForDeletion, Existing
    <3>12. CASE DeleteUser(r)
      BY <3>a, <3>12 DEF DeleteUser
    <3> QED
      BY <1>7, <3>2, <3>3, <3>4, <3>5, <3>6, <3>7, <3>8, <3>9, <3>10, <3>11, <3>12 DEF Statement
  <2> QED
    BY <1>b, <1>c, <1>d, <2>1, <2>2, <2>3
<1>8. ASSUME NEW r \in Requests, NEW u \in Users, GetTarget(r, u) PROVE BoundInv'
  <2>1. UNCHANGED <<cer, deleted>> /\ \A q \in Requests \ {r} : req'[q] = req[q]
    BY <1>8 DEF GetTarget, Go, TypeOK, memory
  <2>2. ReqOK(r)'
    BY <1>8 DEF GetTarget, Go, Idle, ReqOK, TypeOK, Existing
  <2> QED
    BY <1>a, <1>b, <1>c, <1>d, <2>1, <2>2
<1>9. ASSUME NEW u \in Users, EndSession(u) PROVE BoundInv'
  BY <1>1, <1>9 DEF EndSession, memory, past
<1>10. CASE Crash
  BY <1>10, <1>a, <1>b DEF Crash, Idle, CerOK, ReqOK, Existing, past
<1> QED
  BY <1>2, <1>3, <1>4, <1>5, <1>6, <1>7, <1>8, <1>9, <1>10 DEF Next

-----------------------------------------------------------------------------
(* A deletion is final.                                                    *)

\* Only CreateUser adds a user: under an id that was never used, or under that of a
\* ceremony for a second device.
LEMMA DeletedStep ==
    ASSUME TypeOK, BoundInv, DeletedStaysDeleted, [Next]_vars
    PROVE  DeletedStaysDeleted'
<1> USE DEF DeletedStaysDeleted
<1>1. ASSUME UNCHANGED <<users, deleted, returned>> PROVE DeletedStaysDeleted'
  BY <1>1
<1>2. ASSUME NEW i \in Invites, Admin(i) PROVE DeletedStaysDeleted'
  BY <1>1, <1>2 DEF Admin, InviteCLI, CreateInvite, RevokeInvite, ExpireInvite, Withdraw, past
<1>3. ASSUME NEW c \in Ceremonies, Begin(c) PROVE DeletedStaysDeleted'
  BY <1>1, <1>3, BeginKeeps DEF tables, past
<1>4. ASSUME NEW r \in Requests, NEW c \in Ceremonies, Finish(r, c) PROVE DeletedStaysDeleted'
  BY <1>1, <1>4, FinishDoes DEF tables, past
<1>5. ASSUME NEW r \in Requests, Statement(r) PROVE DeletedStaysDeleted'
  <2>1. CASE CreateUser(r)
    <3>1. ASSUME NEW u, CreatesAs(r, u) PROVE DeletedStaysDeleted'
      <4>1. u \in deleted => req[r].kind = "device"
        <5>1. req[r].pc = "create" /\ (u \in deleted => u = req[r].user /\ u # Empty /\ u # None)
          BY <3>1, AccountsAssumption DEF CreatesAs, Go, BoundInv
        <5> QED
          BY <5>1 DEF BoundInv, Existing
      <4> QED
        BY <2>1, <3>1, <4>1 DEF CreatesAs, CreateUser
    <3> QED
      BY <1>1, <2>1, <3>1, CreateDoes DEF CreateUser
  <2>2. CASE DeleteUser(r)
    BY <2>2 DEF DeleteUser
  <2> QED
    BY <1>1, <1>5, <2>1, <2>2
    DEF Statement, ConsumeInvite, AddCredential, IssueSession, Resolve, LinkIdentity,
        CountForDemotion, SetUserAdmin, CountUsers, CountForDeletion, tables, past
<1>6. ASSUME NEW r \in Requests, NEW u \in Users, GetTarget(r, u) PROVE DeletedStaysDeleted'
  BY <1>1, <1>6 DEF GetTarget, tables
<1> QED
  BY <1>1, <1>2, <1>3, <1>4, <1>5, <1>6 DEF Next, Start, EndSession, Crash, vars, tables, past

-----------------------------------------------------------------------------
(* The last admin.                                                         *)

\* More than one admin means one besides any given user (handleDeleteUser and
\* syncOIDCAdmin compare the count with one).
LEMMA AnotherAdmin ==
    ASSUME NEW S, NEW u, ~(Cardinality(S) <= 1)
    PROVE  S \ {u} # {}
<1> SUFFICES ASSUME S \ {u} = {} PROVE FALSE
  OBVIOUS
<1>1. S = {} \/ S = {u}
  OBVIOUS
<1>2. Cardinality({}) = 0 /\ Cardinality({u}) = 1
  BY FS_EmptySet, FS_Singleton
<1> QED
  BY <1>1, <1>2

\* A step that takes no admin away and has no request enter a removal.
LEMMA AdminFrame ==
    ASSUME AdminInv, hist' = hist, admins \subseteq admins',
           \A q \in Requests : Removing(q)' => Removing(q),
           \A q \in Requests : req'[q].pc \in {"delete", "demote"} =>
               req[q].pc \in {"delete", "demote"} /\ req'[q].user = req[q].user
    PROVE  AdminInv'
<1> SUFFICES ASSUME ~hist.overlap PROVE AdminInv'
  BY DEF AdminInv
<1>1. \A q, r \in Requests : Removing(q)' /\ Removing(r)' => q = r
  BY DEF AdminInv
<1>2. \A r \in Requests : req'[r].pc \in {"delete", "demote"} => admins' \ {req'[r].user} # {}
  BY DEF AdminInv
<1>3. hist'.admin => admins' # {}
  BY DEF AdminInv
<1> QED
  BY <1>1, <1>2, <1>3 DEF AdminInv

\* The count is still right when the write comes, because no other removal is under way.
LEMMA AdminStep ==
    ASSUME TypeOK, AdminInv, BoundInv, [Next]_vars
    PROVE  AdminInv'
<1> USE AccountsAssumption
<1>1. ASSUME UNCHANGED <<admins, req>>, hist'.overlap = hist.overlap, hist'.admin = hist.admin
      PROVE  AdminInv'
  BY <1>1 DEF AdminInv, Removing
<1>2. CASE UNCHANGED vars
  BY <1>1, <1>2 DEF vars, tables, past
<1>3. CASE Start
  BY <1>1, <1>3 DEF Start, TypeOK
<1>4. ASSUME NEW i \in Invites, Admin(i) PROVE AdminInv'
  <2>1. CASE Withdraw(i)
    BY <1>1, <2>1 DEF Withdraw, TypeOK
  <2> QED
    BY <1>1, <1>4, <2>1 DEF Admin, InviteCLI, CreateInvite, RevokeInvite, ExpireInvite, past
<1>5. ASSUME NEW c \in Ceremonies, Begin(c) PROVE AdminInv'
  BY <1>1, <1>5, BeginKeeps DEF tables, past
<1>6. ASSUME NEW r \in Requests, NEW c \in Ceremonies, Finish(r, c) PROVE AdminInv'
  <2>1. /\ UNCHANGED <<admins, hist>>
        /\ req'[r].pc \in {"consume", "credential", "session", "resolve"}
        /\ \A q \in Requests \ {r} : req'[q] = req[q]
    BY <1>6, FinishDoes DEF tables, past
  <2> QED
    BY <2>1, AdminFrame DEF Removing
<1>7. ASSUME NEW r \in Requests, Statement(r) PROVE AdminInv'
  <2>0. req[r] \in Request /\ \A q \in Requests \ {r} : req'[q] = req[q]
    BY <1>7, StatementOwn DEF TypeOK
  <2> USE <2>0 DEF Go, To, Request, TypeOK
  <2>1. ASSUME UNCHANGED <<admins, hist>>,
               req'[r].pc \notin {"count", "delete", "demote?", "demote"}
        PROVE  AdminInv'
    BY <2>1, AdminFrame DEF Removing
  <2>2. ASSUME req[r].inv # None, ConsumeInvite(r) PROVE AdminInv'
    BY <2>1, <2>2, HandedOn DEF ConsumeInvite, past
  <2>3. CASE CreateUser(r)
    <3> SUFFICES ASSUME NEW u, CreatesAs(r, u) PROVE AdminInv'
      <4>1. CASE req[r].user \in users /\ Go(r, "create", Idle) /\ UNCHANGED <<users, admins, hist, returned>>
        BY <2>1, <4>1 DEF Idle
      <4> QED
        BY <2>3, <4>1, CreateDoes
    <3>1. admins' = IF req[r].admin THEN admins \cup {u} ELSE admins
      BY DEF CreatesAs
    <3>0. req'[r].pc \in {"credential", "link"}
      BY DEF CreatesAs, Store, Idle
    <3>2. hist'.overlap = hist.overlap /\ hist'.admin = (hist.admin \/ req[r].admin)
      BY DEF CreatesAs
    <3>3. admins \subseteq admins' /\ (req[r].admin => admins' # {})
      BY <3>1
    <3>4. CASE ~hist.overlap
      <4>1. \A q, p \in Requests : Removing(q)' /\ Removing(p)' => q = p
        BY <3>0, <3>4 DEF AdminInv, Removing
      <4>2. \A q \in Requests : req'[q].pc \in {"delete", "demote"} => admins' \ {req'[q].user} # {}
        BY <3>0, <3>3, <3>4 DEF AdminInv
      <4>3. hist'.admin => admins' # {}
        BY <3>2, <3>3, <3>4 DEF AdminInv
      <4> QED
        BY <4>1, <4>2, <4>3 DEF AdminInv
    <3> QED
      BY <3>2, <3>4 DEF AdminInv
  <2>4. CASE AddCredential(r)
    BY <2>1, <2>4, HandedOn DEF AddCredential
  <2>5. CASE IssueSession(r)
    BY <2>1, <2>5 DEF IssueSession, Idle, past
  <2>6. ASSUME req[r].idn # None, Resolve(r) PROVE AdminInv'
    <3> DEFINE u == link[req[r].idn]
               down == u # None /\ HasAdminGroups /\ (u \in admins) # req[r].admin /\ ~req[r].admin
    <3>1. CASE ~down
      <4>1. req'[r].pc \in {"first?", "session", "promote"} /\ hist' = hist
        BY <2>6, <3>1 DEF Resolve, SignIn, Idle
      <4> QED
        BY <2>1, <2>6, <4>1 DEF Resolve, tables
    <3>2. CASE down
      BY <2>6, <3>2 DEF Resolve, SignIn, Idle, NoteOverlap, AdminInv, Removing, tables
    <3> QED
      BY <3>1, <3>2
  <2>7. ASSUME req[r].idn # None, LinkIdentity(r) PROVE AdminInv'
    BY <2>1, <2>7, HandedOn DEF LinkIdentity, past
  <2>8. CASE CountForDemotion(r)
    <3>1. CASE Cardinality(admins) <= 1
      BY <2>1, <2>8, <3>1 DEF CountForDemotion, tables, past
    <3>2. CASE ~(Cardinality(admins) <= 1)
      <4>1. admins \ {req[r].user} # {}
        BY <3>2, AnotherAdmin
      <4>2. /\ UNCHANGED <<admins, hist>> /\ req[r].pc = "demote?"
            /\ req'[r].pc = "demote" /\ req'[r].user = req[r].user
        BY <2>8, <3>2 DEF CountForDemotion, tables, past
      <4> QED
        BY <4>1, <4>2 DEF AdminInv, Removing
    <3> QED
      BY <3>1, <3>2
  <2>9. CASE SetUserAdmin(r)
    <3>1. /\ req'[r].pc = "session" /\ hist'.overlap = hist.overlap
          /\ hist'.admin = (hist.admin \/ admins' # {})
      BY <2>9 DEF SetUserAdmin
    <3>2. CASE ~hist.overlap
      <4>1. \A q, p \in Requests : Removing(q)' /\ Removing(p)' => q = p
        BY <3>1, <3>2 DEF AdminInv, Removing
      <4>2. CASE req[r].pc = "promote"
        <5>1. admins \subseteq admins'
          BY <2>9, <4>2 DEF SetUserAdmin
        <5>2. \A q \in Requests : req'[q].pc \in {"delete", "demote"} => admins' \ {req'[q].user} # {}
          BY <3>1, <3>2, <5>1 DEF AdminInv
        <5>3. hist'.admin => admins' # {}
          BY <3>1, <3>2, <5>1 DEF AdminInv
        <5> QED
          BY <4>1, <5>2, <5>3 DEF AdminInv
      <4>3. CASE req[r].pc = "demote"
        <5>1. admins' # {}
          BY <2>9, <3>2, <4>3 DEF SetUserAdmin, AdminInv
        <5>2. \A q \in Requests : ~Removing(q)'
          BY <3>1, <3>2, <4>3 DEF AdminInv, Removing
        <5> QED
          BY <5>1, <5>2 DEF AdminInv, Removing
      <4> QED
        BY <2>9, <4>2, <4>3 DEF SetUserAdmin
    <3> QED
      BY <3>1, <3>2 DEF AdminInv
  <2>10. CASE CountUsers(r)
    BY <2>1, <2>10 DEF CountUsers, tables, past
  <2>11. CASE CountForDeletion(r)
    <3>1. CASE Cardinality(admins) <= 1
      BY <2>1, <2>11, <3>1 DEF CountForDeletion, Idle, tables, past
    <3>2. CASE ~(Cardinality(admins) <= 1)
      <4>1. admins \ {req[r].user} # {}
        BY <3>2, AnotherAdmin
      <4>2. /\ UNCHANGED <<admins, hist>> /\ req[r].pc = "count"
            /\ req'[r].pc = "delete" /\ req'[r].user = req[r].user
        BY <2>11, <3>2 DEF CountForDeletion, tables, past
      <4> QED
        BY <4>1, <4>2 DEF AdminInv, Removing
    <3> QED
      BY <3>1, <3>2
  <2>12. CASE DeleteUser(r)
    <3>1. /\ hist' = hist /\ req[r].pc = "delete" /\ req'[r].pc = "idle"
          /\ admins' = admins \ {req[r].user}
      BY <2>12 DEF DeleteUser, Idle
    <3>2. CASE ~hist.overlap
      <4>1. admins' # {}
        BY <3>1, <3>2 DEF AdminInv
      <4>2. \A q \in Requests : ~Removing(q)'
        BY <3>1, <3>2 DEF AdminInv, Removing
      <4> QED
        BY <4>1, <4>2 DEF AdminInv, Removing
    <3> QED
      BY <3>1, <3>2 DEF AdminInv
  <2> QED
    BY <1>7, <2>2, <2>3, <2>4, <2>5, <2>6, <2>7, <2>8, <2>9, <2>10, <2>11, <2>12 DEF Statement
<1>8. ASSUME NEW r \in Requests, NEW u \in Users, GetTarget(r, u) PROVE AdminInv'
  <2>1. /\ UNCHANGED admins /\ req'[r].pc \in {"count", "delete"} /\ req'[r].user = u
        /\ req'[r].pc = "delete" => u \notin admins
        /\ \A q \in Requests \ {r} : req'[q] = req[q]
        /\ admins # {}
    BY <1>8 DEF GetTarget, RequireAdmin, Go, Idle, TypeOK, tables
  <2>2. /\ hist'.admin = hist.admin
        /\ ~hist'.overlap => ~hist.overlap /\ \A q \in Requests \ {r} : ~Removing(q)
    BY <1>8 DEF GetTarget, NoteOverlap, TypeOK
  <2>3. ASSUME ~hist'.overlap PROVE AdminInv'
    <3>1. \A q \in Requests \ {r} : ~Removing(q)'
      BY <2>1, <2>2, <2>3 DEF Removing
    <3> QED
      BY <2>1, <2>2, <2>3, <3>1 DEF AdminInv, Removing
  <2> QED
    BY <2>3 DEF AdminInv
<1>9. ASSUME NEW u \in Users, EndSession(u) PROVE AdminInv'
  BY <1>1, <1>9 DEF EndSession, past
<1>10. CASE Crash
  <2>1. UNCHANGED <<admins, hist>> /\ \A q \in Requests : req'[q] = Idle
    BY <1>10 DEF Crash, tables, past
  <2> QED
    BY <2>1 DEF AdminInv, Removing, Idle
<1> QED
  BY <1>2, <1>3, <1>4, <1>5, <1>6, <1>7, <1>8, <1>9, <1>10 DEF Next

-----------------------------------------------------------------------------
(* Before the first user.                                                  *)

\* A recovery link is made by an admin for a user, a recovery is begun for a user, and
\* without overlapping removals the last user is not deleted.
LEMMA FirstStep ==
    ASSUME TypeOK, AdminInv, BoundInv, FirstInv, [Next]_vars
    PROVE  FirstInv'
<1> USE AccountsAssumption
<1>a. ASSUME users' # {} \/ hist'.overlap PROVE FirstInv'
  BY <1>a DEF FirstInv
<1>b. ASSUME users' = users, hist.overlap => hist'.overlap,
             \A i \in Invites : invite'[i].st = "open" => invite'[i] = invite[i] \/ invite'[i].forUser = None,
             \A c \in Ceremonies : cer'[c] \in {cer[c], None},
             \A r \in Requests : req'[r].pc = "consume" => req'[r] = req[r]
      PROVE  FirstInv'
  <2> SUFFICES ASSUME users = {}, ~hist.overlap PROVE FirstInv'
    BY <1>a, <1>b
  <2>1. \A i \in Invites : invite'[i].st = "open" => invite'[i].forUser = None
    BY <1>b DEF FirstInv
  <2>2. \A c \in Ceremonies : cer'[c] # None => cer'[c].kind # "recover"
    BY <1>b DEF FirstInv
  <2>3. \A r \in Requests : req'[r].pc = "consume" => ~Existing(r)'
    BY <1>b DEF FirstInv, Existing
  <2> QED
    BY <2>1, <2>2, <2>3 DEF FirstInv
<1>2. CASE UNCHANGED vars
  BY <1>2, <1>b DEF vars, tables, memory, past
<1>3. CASE Start
  BY <1>3, <1>b DEF Start, NewInvite, TypeOK
<1>4. ASSUME NEW i \in Invites, Admin(i) PROVE FirstInv'
  <2>1. CASE Withdraw(i)
    BY <2>1, <1>b DEF Withdraw, Spent, TypeOK, memory
  <2>2. ASSUME NEW admin, InviteCLI(i, admin) PROVE FirstInv'
    BY <2>2, <1>b DEF InviteCLI, NewInvite, TypeOK, memory, past
  <2>3. ASSUME NEW u, NEW admin, CreateInvite(i, u, admin) PROVE FirstInv'
    BY <2>3, <1>a DEF CreateInvite, RequireAdmin, TypeOK
  <2> QED
    BY <1>4, <2>1, <2>2, <2>3 DEF Admin, RevokeInvite, ExpireInvite
<1>5. ASSUME NEW c \in Ceremonies, Begin(c) PROVE FirstInv'
  <2>1. UNCHANGED <<users, hist, invite, req>>
    BY <1>5, BeginKeeps DEF tables, past
  <2>2. ASSUME cer'[c] = None \/ cer'[c].kind # "recover",
               \A b \in Ceremonies \ {c} : cer'[b] = cer[b]
        PROVE  FirstInv'
    BY <2>1, <2>2 DEF FirstInv, Existing
  <2>3. ASSUME NEW i \in Invites, BeginRegistration(c, i) PROVE FirstInv'
    <3>1. CASE invite[i].forUser = None
      BY <2>2, <2>3, <3>1 DEF BeginRegistration, Put, TypeOK
    <3>2. CASE invite[i].forUser # None
      BY <1>a, <2>1, <2>3, <3>2 DEF BeginRegistration
    <3> QED
      BY <3>1, <3>2
  <2>4. ASSUME NEW u \in Users, BeginAddDevice(c, u) PROVE FirstInv'
    BY <2>2, <2>4 DEF BeginAddDevice, Put, TypeOK
  <2>5. CASE BeginLogin(c) \/ BeginOIDC(c)
    BY <2>2, <2>5 DEF BeginLogin, BeginOIDC, Put, TypeOK
  <2>6. CASE Lapse(c)
    BY <2>2, <2>6 DEF Lapse, TypeOK
  <2> QED
    BY <1>5, <2>3, <2>4, <2>5, <2>6 DEF Begin
<1>6. ASSUME NEW r \in Requests, NEW c \in Ceremonies, Finish(r, c) PROVE FirstInv'
  <2>1. /\ UNCHANGED <<users, hist, invite>>
        /\ \A b \in Ceremonies : cer'[b] \in {cer[b], None}
        /\ \A q \in Requests \ {r} : req'[q] = req[q]
        /\ req'[r].pc = "consume" => cer[c] # None /\ req'[r].kind = cer[c].kind
    BY <1>6, FinishDoes DEF tables, past, TypeOK
  <2> SUFFICES ASSUME users = {}, ~hist.overlap PROVE FirstInv'
    BY <1>a, <2>1
  <2>2. \A b \in Ceremonies : cer'[b] # None => cer'[b].kind # "recover"
    BY <2>1 DEF FirstInv
  <2>3. \A q \in Requests : req'[q].pc = "consume" => ~Existing(q)'
    BY <2>1 DEF FirstInv, Existing
  <2> QED
    BY <2>1, <2>2, <2>3 DEF FirstInv
<1>7. ASSUME NEW r \in Requests, Statement(r) PROVE FirstInv'
  <2>0. /\ req[r] \in Request /\ \A q \in Requests \ {r} : req'[q] = req[q]
        /\ UNCHANGED memory
    BY <1>7, StatementOwn DEF TypeOK
  <2>1. ASSUME users' = users, hist.overlap => hist'.overlap, req'[r].pc # "consume",
               \A i \in Invites : invite'[i] = invite[i] \/ invite'[i].st = "spent"
        PROVE  FirstInv'
    BY <1>b, <2>0, <2>1 DEF memory
  <2> USE <2>0 DEF Go, To, Request, TypeOK
  <2>2. ASSUME req[r].inv # None, ConsumeInvite(r) PROVE FirstInv'
    <3>1. UNCHANGED <<users, hist>>
      BY <2>2 DEF ConsumeInvite, past
    <3>2. \A i \in Invites : invite'[i] = invite[i] \/ invite'[i].st = "spent"
      BY <2>2 DEF ConsumeInvite, Spent
    <3> QED
      BY <2>1, <2>2, <3>1, <3>2, HandedOn
  <2>3. CASE CreateUser(r)
    <3>1. ASSUME NEW u, CreatesAs(r, u) PROVE FirstInv'
      BY <1>a, <3>1 DEF CreatesAs
    <3>2. CASE Go(r, "create", Idle) /\ UNCHANGED <<users, hist>>
      BY <2>1, <2>3, <3>2 DEF CreateUser, Idle
    <3> QED
      BY <2>3, <3>1, <3>2, CreateDoes
  <2>4. CASE AddCredential(r)
    BY <2>1, <2>4, HandedOn DEF AddCredential
  <2>5. CASE IssueSession(r)
    BY <2>1, <2>5 DEF IssueSession, Idle, past
  <2>6. ASSUME req[r].idn # None, Resolve(r) PROVE FirstInv'
    <3>1. req'[r].pc # "consume"
      BY <2>6 DEF Resolve, SignIn, Idle
    <3> QED
      BY <2>1, <2>6, <3>1 DEF Resolve, NoteOverlap, tables
  <2>7. ASSUME req[r].idn # None, LinkIdentity(r) PROVE FirstInv'
    BY <2>1, <2>7, HandedOn DEF LinkIdentity, past
  <2>8. CASE CountForDemotion(r)
    BY <2>1, <2>8 DEF CountForDemotion, tables, past
  <2>9. CASE SetUserAdmin(r)
    BY <2>1, <2>9 DEF SetUserAdmin
  <2>10. CASE CountUsers(r)
    BY <2>1, <2>10 DEF CountUsers, tables, past
  <2>11. CASE CountForDeletion(r)
    BY <2>1, <2>11 DEF CountForDeletion, Idle, tables, past
  <2>12. CASE DeleteUser(r)
    <3>1. ASSUME ~hist.overlap PROVE users' # {}
      <4>1. admins \ {req[r].user} # {}
        BY <2>12, <3>1 DEF DeleteUser, AdminInv
      <4> QED
        BY <2>12, <4>1 DEF DeleteUser
    <3> QED
      BY <1>a, <2>12, <3>1 DEF DeleteUser
  <2> QED
    BY <1>7, <2>2, <2>3, <2>4, <2>5, <2>6, <2>7, <2>8, <2>9, <2>10, <2>11, <2>12 DEF Statement
<1>8. ASSUME NEW r \in Requests, NEW u \in Users, GetTarget(r, u) PROVE FirstInv'
  BY <1>a, <1>8 DEF GetTarget, tables
<1>9. ASSUME NEW u \in Users, EndSession(u) PROVE FirstInv'
  BY <1>b, <1>9 DEF EndSession, memory, past
<1>10. CASE Crash
  BY <1>b, <1>10 DEF Crash, Idle, tables, past
<1> QED
  BY <1>2, <1>3, <1>4, <1>5, <1>6, <1>7, <1>8, <1>9, <1>10 DEF Next

-----------------------------------------------------------------------------
(* The way in.                                                             *)

\* A step that leaves the users and the open invites where they are.
LEMMA EntryFrame ==
    ASSUME EntryOffered, users' = users, up' = up,
           hist'.withdrawn = hist.withdrawn, hist.overlap => hist'.overlap,
           \A i \in Invites : invite[i].st = "open" => invite'[i] = invite[i],
           \A r \in Requests : req[r].pc = "create" => req'[r].pc = "create"
    PROVE  EntryOffered'
  BY DEF EntryOffered

\* Without overlapping removals the users are never all deleted, and the invite that a
\* registration used up leads to a user unless Veery dies, after which Start offers another.
LEMMA EntryStep ==
    ASSUME AccountsInv, [Next]_vars
    PROVE  EntryOffered'
<1> USE AccountsAssumption DEF AccountsInv
<1>2. CASE UNCHANGED vars
  BY <1>2, EntryFrame DEF vars, tables, memory, past
<1>3. CASE Start
  <2>1. CASE users = {}
    <3>1. PICK i \in Invites : NewInvite(i, None, TRUE)
      BY <1>3, <2>1 DEF Start
    <3> QED
      BY <3>1 DEF NewInvite, TypeOK, EntryOffered
  <2>2. CASE users # {}
    BY <1>3, <2>2 DEF Start, EntryOffered
  <2> QED
    BY <2>1, <2>2
<1>4. ASSUME NEW i \in Invites, Admin(i) PROVE EntryOffered'
  <2>1. CASE Withdraw(i)
    BY <2>1 DEF Withdraw, TypeOK, EntryOffered
  <2>2. ASSUME NEW u, NEW admin, InviteCLI(i, admin) \/ CreateInvite(i, u, admin)
        PROVE  EntryOffered'
    <3>1. \A j \in Invites : invite[j].st = "open" => invite'[j] = invite[j]
      BY <2>2 DEF InviteCLI, CreateInvite, NewInvite, TypeOK
    <3> QED
      BY <2>2, <3>1, EntryFrame DEF InviteCLI, CreateInvite, memory, past
  <2> QED
    BY <1>4, <2>1, <2>2 DEF Admin, RevokeInvite, ExpireInvite
<1>5. ASSUME NEW c \in Ceremonies, Begin(c) PROVE EntryOffered'
  BY <1>5, BeginKeeps, EntryFrame DEF tables, past
<1>6. ASSUME NEW r \in Requests, NEW c \in Ceremonies, Finish(r, c) PROVE EntryOffered'
  <2>1. /\ UNCHANGED <<tables, up, past>> /\ req[r].pc = "idle"
        /\ \A q \in Requests \ {r} : req'[q] = req[q]
    BY <1>6, FinishDoes
  <2> QED
    BY <2>1, EntryFrame DEF tables, past
<1>7. ASSUME NEW r \in Requests, Statement(r) PROVE EntryOffered'
  <2>0. /\ req[r] \in Request /\ \A q \in Requests \ {r} : req'[q] = req[q]
        /\ UNCHANGED up
    BY <1>7, StatementOwn DEF TypeOK, memory
  <2> USE <2>0 DEF Go, To, Request, TypeOK
  <2>1. ASSUME UNCHANGED <<users, invite>>, hist'.withdrawn = hist.withdrawn,
               hist.overlap => hist'.overlap, req[r].pc # "create"
        PROVE  EntryOffered'
    <3>1. \A q \in Requests : req[q].pc = "create" => req'[q].pc = "create"
      BY <2>1
    <3> QED
      BY <2>1, <3>1, EntryFrame
  <2>2. ASSUME req[r].inv # None, ConsumeInvite(r) PROVE EntryOffered'
    <3>1. CASE invite[req[r].inv].st # "open"
      BY <2>1, <2>2, <3>1 DEF ConsumeInvite, past
    <3>2. CASE invite[req[r].inv].st = "open" /\ ~Existing(r)
      <4>1. req'[r].pc = "create"
        BY <2>2, <3>2 DEF ConsumeInvite
      <4> QED
        BY <4>1 DEF EntryOffered
    <3>3. CASE Existing(r)
      <4>1. req[r].pc = "consume" /\ UNCHANGED <<users, hist>>
        BY <2>2 DEF ConsumeInvite, past
      <4> QED
        BY <3>3, <4>1 DEF FirstInv, EntryOffered
    <3> QED
      BY <3>1, <3>2, <3>3
  <2>3. CASE CreateUser(r)
    <3>1. users' # {}
      BY <2>3, CreateDoes DEF CreatesAs
    <3> QED
      BY <3>1 DEF EntryOffered
  <2>4. CASE AddCredential(r)
    BY <2>1, <2>4 DEF AddCredential
  <2>5. CASE IssueSession(r)
    BY <2>1, <2>5 DEF IssueSession, past
  <2>6. ASSUME req[r].idn # None, Resolve(r) PROVE EntryOffered'
    BY <2>1, <2>6 DEF Resolve, NoteOverlap, tables
  <2>7. ASSUME req[r].idn # None, LinkIdentity(r) PROVE EntryOffered'
    BY <2>1, <2>7 DEF LinkIdentity, past
  <2>8. CASE CountForDemotion(r)
    BY <2>1, <2>8 DEF CountForDemotion, tables, past
  <2>9. CASE SetUserAdmin(r)
    BY <2>1, <2>9 DEF SetUserAdmin
  <2>10. CASE CountUsers(r)
    BY <2>1, <2>10 DEF CountUsers, tables, past
  <2>11. CASE CountForDeletion(r)
    BY <2>1, <2>11 DEF CountForDeletion, tables, past
  <2>12. CASE DeleteUser(r)
    <3>1. ASSUME ~hist.overlap PROVE users' # {}
      <4>1. admins \ {req[r].user} # {}
        BY <2>12, <3>1 DEF DeleteUser, AdminInv
      <4> QED
        BY <2>12, <4>1 DEF DeleteUser
    <3> QED
      BY <2>12, <3>1 DEF DeleteUser, EntryOffered
  <2> QED
    BY <1>7, <2>2, <2>3, <2>4, <2>5, <2>6, <2>7, <2>8, <2>9, <2>10, <2>11, <2>12 DEF Statement
<1>8. ASSUME NEW r \in Requests, NEW u \in Users, GetTarget(r, u) PROVE EntryOffered'
  BY <1>8 DEF GetTarget, RequireAdmin, EntryOffered, TypeOK, tables
<1>9. ASSUME NEW u \in Users, EndSession(u) PROVE EntryOffered'
  BY <1>9, EntryFrame DEF EndSession, memory, past
<1>10. CASE Crash
  BY <1>10 DEF Crash, EntryOffered
<1> QED
  BY <1>2, <1>3, <1>4, <1>5, <1>6, <1>7, <1>8, <1>9, <1>10 DEF Next

-----------------------------------------------------------------------------
(* The theorems.                                                           *)

\* An empty database satisfies the invariant.
LEMMA InvInit == Init => AccountsInv
<1> SUFFICES ASSUME Init PROVE AccountsInv
  OBVIOUS
<1>1. TypeOK
  BY TypeInit
<1>2. DeletedStaysDeleted /\ EntryOffered /\ FirstInv
  BY DEF Init, DeletedStaysDeleted, EntryOffered, FirstInv, Idle
<1>3. RedeemInv
  BY DEF Init, RedeemInv, Redeeming, Idle
<1>4. AdminInv
  BY DEF Init, AdminInv, Removing, Idle
<1>5. BoundInv
  BY DEF Init, BoundInv, Idle
<1> QED
  BY <1>1, <1>2, <1>3, <1>4, <1>5 DEF AccountsInv

\* The invariant holds in every state.
LEMMA Invariance == Spec => []AccountsInv
<1>1. AccountsInv /\ [Next]_vars => AccountsInv'
  <2> SUFFICES ASSUME AccountsInv, [Next]_vars PROVE AccountsInv'
    OBVIOUS
  <2> QED
    BY TypeStep, DeletedStep, RedeemStep, AdminStep, BoundStep, FirstStep, EntryStep DEF AccountsInv
<1> QED
  BY <1>1, InvInit, PTL DEF Spec

\* The rows of credentials, sessions and oidc_identities belong to users that exist, the
\* admins are users, and ceremonies and requests do not outlive the process.
THEOREM TypeCorrect == Spec => []TypeOK
<1>1. AccountsInv => TypeOK
  BY DEF AccountsInv
<1> QED
  BY <1>1, Invariance, PTL

\* However many ceremonies are begun, with an invite or with another, and however their finishes are
\* interleaved with crashes, it enrolls at most one passkey (ConsumeInvite, AddCredential).
THEOREM EnrollsOnce == Spec => []InviteOnce
<1>1. AccountsInv => InviteOnce
  BY DEF AccountsInv, RedeemInv, InviteOnce
<1> QED
  BY <1>1, Invariance, PTL

\* No recovery, second device or sign-in that was under way brings a deleted user back,
\* with one exception: a second-device ceremony of theirs, begun before the deletion, that
\* is finished as a registration with an open invite (FinishRegistration, CreateUser).
THEOREM DeletionFinal == Spec => []DeletedStaysDeleted
<1>1. AccountsInv => DeletedStaysDeleted
  BY DEF AccountsInv
<1> QED
  BY <1>1, Invariance, PTL

\* While no two removals overlap, there is an admin once there was one, whatever else
\* runs between the count and the write of handleDeleteUser and syncOIDCAdmin.
THEOREM LastAdminStays == Spec => []AdminRemains
<1>1. AccountsInv => AdminRemains
  BY DEF AccountsInv, AdminInv, AdminRemains
<1> QED
  BY <1>1, Invariance, PTL

\* An instance without users that serves requests has an open admin invite, or a
\* registration that is about to create the first user (Bootstrap).
THEOREM WayIn == Spec => []EntryOffered
<1>1. AccountsInv => EntryOffered
  BY DEF AccountsInv
<1> QED
  BY <1>1, Invariance, PTL
=============================================================================
