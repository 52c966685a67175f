------------------------------ MODULE Accounts -----------------------------
(***************************************************************************)
(* Who may use the site: sign-in through an OAuth provider                 *)
(* (auth/routes.py), the command that registers the first administrator    *)
(* (bootstrap.py), the review, suspension and deletion of users            *)
(* (admin/routes.py), the session every request is checked against         *)
(* (auth/deps.py) and the address a user edits (routes/profile.py).        *)
(*                                                                         *)
(* The callback of a sign-in is a coroutine that no longer awaits once it  *)
(* knows the identity, so callbacks do not overlap; the other handlers run *)
(* in threads beside it.  No transaction holds a lock from its read to its *)
(* write, so one that decides on what it read takes two steps: the review  *)
(* of an administrator, and the callback where it opens a rejected request *)
(* anew or fills in an address.  A write finding its row gone fails, and   *)
(* the callback with it.                                                   *)
(* The session lives in the browser's cookie, which every                  *)
(* response sets anew from what its request carried.  Session lifetimes    *)
(* are left out: the middleware that would end one never sees it.          *)
(***************************************************************************)
EXTENDS Integers, FiniteSets

CONSTANTS
  People,      \* identities at a provider that may sign in
  Founders,    \* those the bootstrap command is run for
  Admins,      \* administrators there are from the start
  Bans,        \* the durations a ban may have
  MaxNow,      \* bound on the clock
  MaxLives     \* bound on the accounts an identity may have, one after another

Users == People \cup Admins

ASSUME AccountsAssumption ==
  /\ People \cap Admins = {} /\ Founders \subseteq People /\ IsFiniteSet(Users)
  /\ MaxNow \in Nat /\ Bans \subseteq 1..MaxNow /\ MaxLives \in Nat \ {0}

VARIABLES
  now,
  profile,     \* table operator_profile, by the identity that owns the row
  callback,    \* the sign-in under way, or NoCallback
  session,     \* the account each browser's cookie names, or NoAccount
  request,     \* the account the page request under way is served for
  review,      \* the transaction of each administrator's handler
  told,        \* history: the last mail on the account, while an address is on file
  announced,   \* history: mails to the administrators about the open request
  approved,    \* history: the last account of a person that was approved
  contested,   \* history: people approved while another review was open
  overtaken    \* history: people who saved their profile since a sign-in read it

ghosts == <<told, announced, approved, contested, overtaken>>
vars   == <<now, profile, callback, session, request, review, ghosts>>

Indefinite == MaxNow + 1 + MaxNow      \* INDEFINITE_BAN, later than any ban
NotBanned  == 0
NoAccount  == 0
NoCallback == [at |-> "none"]
NoReview   == [op |-> "none"]

\* A row of operator_profile; accounts of one identity are numbered, as no
\* identifier is used again.
Row(status, life, admin, email) ==
  [status |-> status, life |-> life, is_admin |-> admin,
   banned_until |-> NotBanned, email |-> email]

Exists(u)   == profile[u].status # "none"
IsBanned(u) == profile[u].banned_until > now       \* ban_is_active

TypeOK ==
  /\ now \in 0..MaxNow
  /\ profile \in [Users -> [status : {"none", "pending", "active", "rejected"},
                            life : 0..MaxLives, is_admin : BOOLEAN,
                            banned_until : 0..Indefinite,
                            email : {"none", "login", "own"}]]
  /\ callback.at \in {"none", "request", "reopen", "ban", "email", "fill", "seat"}
  /\ session \in [People -> 0..MaxLives] /\ request \in [People -> 0..MaxLives]
  /\ \A a \in Users : review[a] = NoReview \/ review[a].target \in Users
  /\ told \in [People -> {"none", "received", "approved", "rejected"}]
  /\ announced \in [People -> Nat] /\ approved \in [People -> 0..MaxLives]
  /\ contested \subseteq People /\ overtaken \subseteq People

Init ==
  /\ now = 0
  /\ profile = [u \in Users |-> IF u \in Admins THEN Row("active", 1, TRUE, "login")
                                ELSE Row("none", 0, FALSE, "none")]
  /\ callback = NoCallback
  /\ session = [p \in People |-> NoAccount] /\ request = session
  /\ review = [a \in Users |-> NoReview]
  /\ told = [p \in People |-> "none"] /\ announced = [p \in People |-> 0]
  /\ approved = [p \in People |-> 0] /\ contested = {} /\ overtaken = {}

Clock ==
  /\ now < MaxNow /\ now' = now + 1
  /\ UNCHANGED <<profile, callback, session, request, review, ghosts>>

-----------------------------------------------------------------------------
(* The callback of a sign-in; p comes with the address the provider gives. *)

EmailOf(address) == IF address THEN "login" ELSE "none"

\* _lookup_operator.
Callback(p, address) ==
  /\ callback = NoCallback
  /\ callback' = [at |-> CASE profile[p].status = "active"   -> "ban"
                          [] profile[p].status = "pending"  -> "email"
                          [] OTHER                          -> "request",
                  who |-> p, life |-> profile[p].life,
                  status |-> profile[p].status, email |-> EmailOf(address)]
  /\ UNCHANGED <<now, profile, session, request, review, ghosts>>

\* Is the row the callback looked up still there?
SameRow == Exists(callback.who) /\ profile[callback.who].life = callback.life

\* _create_pending_signup, the mails in the same transaction.  The unique key
\* refuses an identity registered meanwhile.
SignUp ==
  /\ callback.at = "request" /\ callback.status = "none"
  /\ callback' = NoCallback
  /\ LET p == callback.who IN
       IF Exists(p) THEN UNCHANGED <<profile, told, announced>>
       ELSE /\ profile[p].life < MaxLives
            /\ profile' = [profile EXCEPT ![p] =
                 Row("pending", profile[p].life + 1, FALSE, callback.email)]
            /\ told' = [told EXCEPT ![p] = IF callback.email = "none" THEN "none" ELSE "received"]
            /\ announced' = [announced EXCEPT ![p] = @ + 1]
  /\ UNCHANGED <<now, session, request, review, approved, contested, overtaken>>

\* _reopen_rejected_request reads the row.
ReadRejected ==
  /\ callback.at = "request" /\ callback.status = "rejected"
  /\ callback' = [callback EXCEPT !.at =
       IF SameRow /\ profile[callback.who].status = "rejected" THEN "reopen" ELSE "email"]
  /\ UNCHANGED <<now, profile, session, request, review, ghosts>>

\* Mutant of Reopen: only a first request is announced.
ReopenQuietly ==
  /\ callback.at = "reopen"
  /\ IF SameRow
     THEN /\ profile' = [profile EXCEPT ![callback.who].status = "pending"]
          /\ callback' = [callback EXCEPT !.at = "email"]
     ELSE UNCHANGED profile /\ callback' = NoCallback
  /\ UNCHANGED <<now, session, request, review, ghosts>>

\* It writes the row, the mails in the same transaction.
Reopen ==
  /\ callback.at = "reopen"
  /\ LET p == callback.who IN
       IF SameRow
       THEN /\ profile' = [profile EXCEPT ![p].status = "pending"]
            /\ announced' = [announced EXCEPT ![p] = @ + 1]
            /\ callback' = [callback EXCEPT !.at = "email"]
       ELSE UNCHANGED <<profile, announced>> /\ callback' = NoCallback
  /\ UNCHANGED <<now, session, request, review, told, approved, contested, overtaken>>

\* _operator_is_banned, of a user found active.
CheckBan ==
  /\ callback.at = "ban"
  /\ callback' = IF SameRow /\ IsBanned(callback.who) THEN NoCallback
                 ELSE [callback EXCEPT !.at = "email"]
  /\ UNCHANGED <<now, profile, session, request, review, ghosts>>

\* Mutant of Unfilled: the address of the provider replaces any other.
UnfilledOrNot(row) == TRUE

\* Is there no address in the row that the one of the provider would replace?
Unfilled(row) == row.email = "none"

\* What follows the address: an active user is seated.
AfterEmail == IF callback.status = "active" THEN [callback EXCEPT !.at = "seat"] ELSE NoCallback

\* _store_login_email reads the row.
ReadLoginEmail ==
  /\ callback.at = "email"
  /\ callback' = IF callback.email # "none" /\ SameRow /\ Unfilled(profile[callback.who])
                 THEN [callback EXCEPT !.at = "fill"] ELSE AfterEmail
  /\ overtaken' = overtaken \ {callback.who}
  /\ UNCHANGED <<now, profile, session, request, review, told, announced, approved, contested>>

\* It writes the address, whatever has been saved since it read.
StoreLoginEmail ==
  /\ callback.at = "fill"
  /\ IF SameRow THEN /\ profile' = [profile EXCEPT ![callback.who].email = callback.email]
                     /\ callback' = AfterEmail
                ELSE UNCHANGED profile /\ callback' = NoCallback
  /\ UNCHANGED <<now, session, request, review, ghosts>>

\* The session is seated, for the account looked up.
Seat ==
  /\ callback.at = "seat"
  /\ session' = [session EXCEPT ![callback.who] = callback.life]
  /\ callback' = NoCallback
  /\ UNCHANGED <<now, profile, request, review, ghosts>>

SignIn == \/ \E p \in People, address \in BOOLEAN : Callback(p, address)
          \/ SignUp \/ ReadRejected \/ Reopen \/ CheckBan
          \/ ReadLoginEmail \/ StoreLoginEmail \/ Seat

\* bootstrap.main: an identity that is registered already is left as it is.
Bootstrap(p) ==
  /\ IF Exists(p) THEN UNCHANGED <<profile, approved>>
     ELSE /\ profile[p].life < MaxLives
          /\ profile' = [profile EXCEPT ![p] = Row("active", profile[p].life + 1, TRUE, "none")]
          /\ approved' = [approved EXCEPT ![p] = profile[p].life + 1]
  /\ UNCHANGED <<now, callback, session, request, review, told, announced, contested, overtaken>>

-----------------------------------------------------------------------------
(* Requests of a browser, checked by require_session. *)

\* Mutant of AccessState: the row of another account of the person will do.
AccessStateOfAny(u, life) ==
  IF ~Exists(u) THEN "gone"
  ELSE IF IsBanned(u) THEN "banned"
  ELSE "ok"

\* _operator_access_state.
AccessState(u, life) ==
  IF ~Exists(u) \/ profile[u].life # life THEN "gone"
  ELSE IF IsBanned(u) THEN "banned"
  ELSE "ok"

\* A page is asked for: it is served, or the session cleared.
BeginRequest(p) ==
  /\ session[p] # NoAccount /\ request[p] = NoAccount
  /\ IF AccessState(p, session[p]) = "ok"
     THEN request' = [request EXCEPT ![p] = session[p]] /\ UNCHANGED session
     ELSE session' = [session EXCEPT ![p] = NoAccount] /\ UNCHANGED request
  /\ UNCHANGED <<now, profile, callback, review, ghosts>>

\* The response sets the cookie the request carried, whatever came of the
\* browser's session meanwhile.
EndRequest(p) ==
  /\ request[p] # NoAccount
  /\ session' = [session EXCEPT ![p] = request[p]]
  /\ request' = [request EXCEPT ![p] = NoAccount]
  /\ UNCHANGED <<now, profile, callback, review, ghosts>>

\* profile_save: the address as the form has it; the row may be gone, which
\* ends the request in an error.
SaveProfile(p, email) ==
  /\ request[p] # NoAccount
  /\ IF Exists(p) /\ profile[p].life = request[p]
     THEN /\ profile' = [profile EXCEPT ![p].email = email]
          /\ session' = [session EXCEPT ![p] = request[p]]
          /\ told' = [told EXCEPT ![p] = IF email = "none" THEN "none" ELSE @]
          /\ overtaken' = overtaken \cup {p}
     ELSE UNCHANGED <<profile, session, told, overtaken>>
  /\ request' = [request EXCEPT ![p] = NoAccount]
  /\ UNCHANGED <<now, callback, review, announced, approved, contested>>

Logout(p) ==
  /\ session[p] # NoAccount
  /\ session' = [session EXCEPT ![p] = NoAccount]
  /\ UNCHANGED <<now, profile, callback, request, review, ghosts>>

Browse(p) == \/ BeginRequest(p) \/ EndRequest(p) \/ Logout(p)
             \/ \E email \in {"none", "own"} : SaveProfile(p, email)

-----------------------------------------------------------------------------
(* The administrators' page. *)

\* require_admin.
IsAdmin(a) == Exists(a) /\ ~IsBanned(a) /\ profile[a].is_admin
Visits(a)  == a \in People => request[a] = profile[a].life

\* Whom an administrator may neither ban nor delete.
Untouchable(a, u) == u = a \/ profile[u].is_admin

\* Mutant of Reviewable: what the page showed as pending is not read again.
ReviewableUnchecked(u) == Exists(u) /\ ~profile[u].is_admin

\* Whom a review can decide on.
Reviewable(u) == profile[u].status = "pending"

\* The end of a ban.
Until(u, d) == IF d = Indefinite THEN Indefinite ELSE now + d

\* A handler reads the row and decides; other clicks end without effect.
OpenReview(a, u) ==
  /\ IsAdmin(a) /\ Visits(a) /\ review[a] = NoReview /\ Exists(u)
  /\ \E op \in {"active", "rejected", "ban", "unban", "delete"}, d \in Bans \cup {Indefinite} :
       /\ CASE op \in {"active", "rejected"} -> Reviewable(u)
            [] op \in {"ban", "delete"}      -> ~Untouchable(a, u)
            [] OTHER                         -> ~profile[u].is_admin
       /\ op # "ban" => d = Indefinite
       /\ review' = [review EXCEPT ![a] =
            [op |-> op, target |-> u, life |-> profile[u].life, until |-> Until(u, d)]]
  /\ UNCHANGED <<now, profile, callback, session, request, ghosts>>

\* The mail on a decision: account_approved or account_rejected.
MailOf(u, op) ==
  IF profile[u].email = "none" THEN told[u]
  ELSE IF op = "active" THEN "approved"
  ELSE "rejected"

\* The write of the handler, unless the row is gone.
CloseReview(a) ==
  LET r == review[a]  u == r.target IN
  /\ r # NoReview
  /\ review' = [review EXCEPT ![a] = NoReview]
  /\ IF ~Exists(u) \/ profile[u].life # r.life THEN UNCHANGED <<profile, ghosts>>
     ELSE CASE r.op \in {"active", "rejected"} ->
                 /\ profile' = [profile EXCEPT ![u].status = r.op]
                 /\ told' = [told EXCEPT ![u] = MailOf(u, r.op)]
                 /\ approved' = [approved EXCEPT ![u] = IF r.op = "active" THEN r.life ELSE @]
                 /\ contested' = IF \E b \in Users \ {a} : /\ review[b] # NoReview
                                                          /\ review[b].target = u
                                 THEN contested \cup {u} ELSE contested
                 /\ announced' = [announced EXCEPT ![u] = 0]
                 /\ UNCHANGED overtaken
            [] r.op = "ban"    -> /\ profile' = [profile EXCEPT ![u].banned_until = r.until]
                                  /\ UNCHANGED ghosts
            [] r.op = "unban"  -> /\ profile' = [profile EXCEPT ![u].banned_until = NotBanned]
                                  /\ UNCHANGED ghosts
            [] r.op = "delete" ->
                 /\ profile' = [profile EXCEPT ![u] = Row("none", r.life, FALSE, "none")]
                 /\ told' = [told EXCEPT ![u] = "none"]
                 /\ announced' = [announced EXCEPT ![u] = 0]
                 /\ contested' = contested \ {u}
                 /\ UNCHANGED <<approved, overtaken>>
  /\ UNCHANGED <<now, callback, session, request>>

Next == \/ Clock \/ SignIn
        \/ \E p \in Founders : Bootstrap(p)
        \/ \E p \in People : Browse(p)
        \/ \E a, u \in Users : OpenReview(a, u)
        \/ \E a \in Users : CloseReview(a)

Spec == Init /\ [][Next]_vars

-----------------------------------------------------------------------------
(* Properties. *)

\* A request is served only for an account that an administrator let in and
\* that is there still, not suspended: be the session seated while the ban or
\* the deletion was under way, or restored by a late response.
ServedOnlyTheAdmitted ==
  [][\A p \in People : request'[p] \notin {NoAccount, request[p]} =>
       /\ request'[p] = profile[p].life /\ approved[p] = request'[p]
       /\ Exists(p) /\ ~IsBanned(p)]_vars

\* The administrators together cannot leave the site without one.
AnAdminRemains == Admins # {} => \E a \in Users : IsAdmin(a)

\* Nobody is told of a decision that does not stand: who was told last to be
\* approved is, unless two reviews overlapped and the request was opened anew
\* between them; who was told to be rejected has at most asked again.
ToldWhatStands ==
  \A p \in People :
    /\ told[p] = "approved" => \/ profile[p].status = "active"
                               \/ p \in contested /\ profile[p].status = "pending"
    /\ told[p] = "rejected" => profile[p].status \in {"rejected", "pending"}

\* Every account that starts to wait for a decision is announced to the
\* administrators, once.
EveryRequestAnnounced ==
  \A p \in People : announced[p] = IF profile[p].status = "pending" THEN 1 ELSE 0

\* The address a user set is replaced by the user alone, or by a sign-in that
\* had read the row before the user saved it: no other sign-in, of whatever
\* status, before or after a deletion, touches it.
OwnAddressStays ==
  [][\A p \in People : profile[p].email = "own" /\ Exists(p)' =>
       \/ profile'[p].email = "own"
       \/ request'[p] # request[p]
       \/ callback.who = p /\ callback.at = "fill" /\ p \in overtaken]_vars

\* An approval stands, unless two reviews of the request overlapped.
ApprovalStands ==
  [][\A p \in People \ contested : profile[p].status = "active" =>
       profile'[p].status \in {"active", "none"}]_vars

\* Mail on an account agrees with its row: decisions as told, and one
\* announcement per request that is open, whatever reviews, deletions and new
\* sign-ups overlap.
MailsAgree == ToldWhatStands /\ EveryRequestAnnounced

=============================================================================
