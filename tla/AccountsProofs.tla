--------------------------- MODULE AccountsProofs ---------------------------
(* Proofs of the properties of Accounts, for any people, administrators,   *)
(* bans and bounds.                                                        *)
EXTENDS Accounts, TLAPS

Rows == [status : {"none", "pending", "active", "rejected"}, life : 0..MaxLives,
         is_admin : BOOLEAN, banned_until : 0..Indefinite,
         email : {"none", "login", "own"}]

Callbacks ==
  [at : {"request", "reopen", "ban", "email", "fill", "seat"}, who : People, life : 0..MaxLives,
   status : {"none", "pending", "active", "rejected"}, email : {"none", "login"}]

\* An open review concerns nobody who administers from the start.
Reviews ==
  [op : {"active", "rejected", "ban", "unban", "delete"}, target : People,
   life : 0..MaxLives, until : 0..Indefinite]

\* The shape of the state, finer than TypeOK on the transactions under way.
Shape ==
  /\ now \in 0..MaxNow
  /\ profile \in [Users -> Rows]
  /\ callback \in Callbacks \cup {NoCallback}
  /\ session \in [People -> 0..MaxLives] /\ request \in [People -> 0..MaxLives]
  /\ review \in [Users -> Reviews \cup {NoReview}]
  /\ told \in [People -> {"none", "received", "approved", "rejected"}]
  /\ announced \in [People -> Nat] /\ approved \in [People -> 0..MaxLives]
  /\ contested \subseteq People /\ overtaken \subseteq People

AdminsStay == \A a \in Admins : profile[a] = Row("active", 1, TRUE, "login")

\* Whatever names an account that may enter names one that was approved, and no
\* later account of the person has been registered unless it was approved too.
EntryApproved ==
  /\ \A p \in People :
       /\ session[p] <= approved[p] /\ request[p] <= approved[p]
       /\ approved[p] <= profile[p].life
       /\ profile[p].status = "active" => approved[p] = profile[p].life
  /\ callback # NoCallback =>
       /\ callback.at \in {"ban", "seat"} => callback.status = "active"
       /\ callback.status = "active" => callback.life <= approved[callback.who]
  /\ \A a \in Users : review[a] # NoReview =>
       review[a].life <= profile[review[a].target].life

\* A row that is gone keeps no address, and without an address there is no mail.
NoMailWithoutAddress ==
  \A p \in People : /\ profile[p].status = "none" => profile[p].email = "none"
                    /\ profile[p].email = "none" => told[p] = "none"

\* No review is left that could still decide on an uncontested decision.
NoRivalReview ==
  \A p \in People \ contested, a \in Users :
    profile[p].status \in {"active", "rejected"} /\ review[a] # NoReview /\ review[a].target = p =>
      review[a].op \notin {"active", "rejected"} \/ review[a].life # profile[p].life

\* What a sign-in has read of its row and will write upon: a request rejected,
\* which only a review that overlapped another may have approved since, and a
\* row without address, which only the user may have given one since.
SignInReads ==
  callback # NoCallback =>
    /\ callback.life <= profile[callback.who].life
    /\ callback.at = "reopen" /\ SameRow =>
         \/ profile[callback.who].status = "rejected"
         \/ profile[callback.who].status = "active" /\ callback.who \in contested
    /\ callback.at = "fill" /\ SameRow /\ profile[callback.who].email # "none" =>
         callback.who \in overtaken
    /\ callback.at = "fill" => callback.email # "none"

Tables == /\ Shape /\ AdminsStay /\ EntryApproved /\ NoMailWithoutAddress
          /\ ToldWhatStands /\ EveryRequestAnnounced /\ NoRivalReview

IInv == Tables /\ SignInReads

LEMMA InitIInv == Init => IInv
<1> SUFFICES ASSUME Init PROVE IInv
  OBVIOUS
<1> USE AccountsAssumption
<1>1. Shape
  BY DEF Init, Shape, Rows, Row, Indefinite, NotBanned, NoAccount, Users
<1>2. AdminsStay /\ EntryApproved /\ NoMailWithoutAddress
  BY DEF Init, AdminsStay, EntryApproved, NoMailWithoutAddress, Row, Users, NoAccount
<1>3. ToldWhatStands /\ EveryRequestAnnounced /\ NoRivalReview
  BY DEF Init, ToldWhatStands, EveryRequestAnnounced, NoRivalReview, Row, Users
<1> QED
  BY <1>1, <1>2, <1>3 DEF Init, IInv, Tables, SignInReads

LEMMA StutterStep == ASSUME IInv, UNCHANGED vars PROVE Tables'
BY DEF IInv, Tables, vars, ghosts, Shape, AdminsStay, EntryApproved, NoMailWithoutAddress,
       ToldWhatStands, EveryRequestAnnounced, NoRivalReview

\* Every step of the model keeps the invariant: one lemma for each actor.
LEMMA SignInStep == IInv /\ SignIn => Tables'
<1> SUFFICES ASSUME IInv, SignIn PROVE Tables'
  OBVIOUS
<1> USE AccountsAssumption DEF ghosts, Exists, Row, NoCallback, NotBanned, NoAccount
<1> DEFINE Parts == /\ Shape' /\ AdminsStay' /\ EntryApproved' /\ NoMailWithoutAddress'
                    /\ ToldWhatStands' /\ EveryRequestAnnounced' /\ NoRivalReview'
<1>0. Shape /\ AdminsStay /\ EntryApproved /\ NoMailWithoutAddress
      /\ ToldWhatStands /\ EveryRequestAnnounced /\ NoRivalReview
  BY DEF IInv, Tables
<1>1. ASSUME NEW p \in People, NEW address \in BOOLEAN, Callback(p, address) PROVE Parts
  <2>1. Shape'
    BY <1>0, <1>1 DEF Callback, EmailOf, Shape, Rows, Callbacks, Reviews, Users, Indefinite
  <2>2. AdminsStay'
    BY <1>0, <1>1 DEF Callback, EmailOf, Shape, Rows, Callbacks, AdminsStay, Users
  <2>3. EntryApproved'
    BY <1>0, <1>1 DEF Callback, EmailOf, Shape, Rows, Callbacks, Reviews, EntryApproved, Users
  <2>4. NoMailWithoutAddress'
    BY <1>0, <1>1 DEF Callback, EmailOf, Shape, Rows, Callbacks, NoMailWithoutAddress, Users
  <2>5. ToldWhatStands' /\ EveryRequestAnnounced'
    BY <1>0, <1>1 DEF Callback, EmailOf, Shape, Rows, Callbacks, ToldWhatStands, EveryRequestAnnounced, NoMailWithoutAddress, Users
  <2>6. NoRivalReview'
    BY <1>0, <1>1 DEF Callback, EmailOf, Shape, Rows, Callbacks, Reviews, EntryApproved, NoRivalReview, Users
  <2> QED
    BY <2>1, <2>2, <2>3, <2>4, <2>5, <2>6
<1>2. ASSUME SignUp PROVE Parts
  <2> DEFINE who == callback.who
  <2>who. callback \in Callbacks /\ who \in People
    BY <1>0, <1>2 DEF SignUp, Shape, Callbacks
  <2>rest. /\ profile' = [profile EXCEPT ![who] = profile'[who]]
          /\ \A u \in Users \ {who} : profile'[u] = profile[u]
    BY <1>0, <1>2, <2>who DEF SignUp, Shape, Rows, Users
  <2>new. \/ profile' = profile
          \/ /\ profile[who].status = "none" /\ profile'[who].status = "pending"
             /\ profile'[who].life = profile[who].life + 1
    BY <1>0, <1>2, <2>who DEF SignUp, Shape, Users
  <2>else. callback' = NoCallback /\ UNCHANGED <<session, request, review, approved>>
    BY <1>2 DEF SignUp
  <2>1. Shape'
    <3>1. CASE Exists(who)
      BY <1>0, <1>2, <2>who, <3>1 DEF SignUp, Shape
    <3>2. CASE ~Exists(who)
      <4>0. profile[who] \in Rows /\ profile[who].life < MaxLives
        BY <1>0, <1>2, <2>who, <3>2 DEF SignUp, Shape, Users
      <4>1. profile'[who] \in Rows
        <5>1. profile[who].life + 1 \in 0..MaxLives
          BY <4>0 DEF Rows
        <5>2. 0 \in 0..Indefinite
          BY DEF Indefinite
        <5>3. callback.email \in {"none", "login", "own"}
          BY <2>who DEF Callbacks
        <5> HIDE DEF who
        <5>4. profile'[who] = [status |-> "pending", life |-> profile[who].life + 1,
                               is_admin |-> FALSE, banned_until |-> 0, email |-> callback.email]
          BY <1>0, <1>2, <2>who, <3>2 DEF SignUp, Shape, Users, who
        <5> QED
          BY <5>1, <5>2, <5>3, <5>4 DEF Rows
      <4>2. profile' \in [Users -> Rows]
        BY <1>0, <2>rest, <2>who, <4>1 DEF Shape
      <4>3. /\ told' \in [People -> {"none", "received", "approved", "rejected"}]
            /\ announced' \in [People -> Nat]
        BY <1>0, <1>2, <2>who, <3>2 DEF SignUp, Shape
      <4> QED
        BY <1>0, <1>2, <4>2, <4>3 DEF SignUp, Shape
    <3> QED
      BY <3>1, <3>2
  <2>2. AdminsStay'
    BY <1>0, <2>who, <2>rest DEF AdminsStay, Users
  <2>3. EntryApproved'
    <3>1. \A p \in People : /\ p \in Users /\ (p = who \/ profile'[p] = profile[p])
                             /\ profile[p].life \in Nat /\ approved[p] \in Nat
                             /\ session[p] \in Nat /\ request[p] \in Nat
      BY <1>0, <2>rest DEF Shape, Rows, Users
    <3>2. \A p \in People :
            /\ session'[p] <= approved'[p] /\ request'[p] <= approved'[p]
            /\ approved'[p] <= profile'[p].life
            /\ profile'[p].status = "active" => approved'[p] = profile'[p].life
      BY <1>0, <2>who, <2>new, <2>else, <3>1 DEF EntryApproved
    <3>3. \A a \in Users : review'[a] # NoReview =>
            review'[a].life <= profile'[review'[a].target].life
      <4>1. \A a \in Users : review[a] # NoReview =>
              review[a].life \in Nat /\ review[a].target \in People
        BY <1>0 DEF Shape, Reviews
      <4>2. \A p \in People : profile'[p].life >= profile[p].life
        BY <2>new, <3>1
      <4>3. \A a \in Users : review[a] # NoReview =>
              review[a].life <= profile[review[a].target].life
        BY <1>0 DEF EntryApproved
      <4>4. \A p \in People : profile'[p].life \in Nat
        BY <2>1 DEF Shape, Rows, Users
      <4> QED
        BY <2>else, <3>1, <4>1, <4>2, <4>3, <4>4
    <3> QED
      BY <1>0, <2>who, <2>else, <3>2, <3>3 DEF EntryApproved, Callbacks
  <2>4. NoMailWithoutAddress'
    BY <1>0, <1>2 DEF SignUp, Shape, Rows, Callbacks, NoMailWithoutAddress, Users
  <2>5. ToldWhatStands' /\ EveryRequestAnnounced'
    BY <1>0, <1>2 DEF SignUp, Shape, Rows, Callbacks, ToldWhatStands, EveryRequestAnnounced, NoMailWithoutAddress, Users
  <2>6. NoRivalReview'
    <3>1. contested' = contested /\ UNCHANGED review
      BY <1>2 DEF SignUp
    <3>2. \A p \in People : p # who => profile'[p] = profile[p]
      BY <2>rest DEF Users
    <3>3. profile' = profile \/ profile'[who].status = "pending"
      BY <2>new
    <3> HIDE DEF who
    <3> QED
      BY <1>0, <3>1, <3>2, <3>3 DEF NoRivalReview
  <2> QED
    BY <2>1, <2>2, <2>3, <2>4, <2>5, <2>6
<1>3. ASSUME Reopen PROVE Parts
  <2> DEFINE who == callback.who
  <2>who. callback \in Callbacks /\ who \in People
    BY <1>0, <1>3 DEF Reopen, Shape, Callbacks
  <2>rest. /\ profile' = [profile EXCEPT ![who] = profile'[who]]
          /\ \A u \in Users \ {who} : profile'[u] = profile[u]
    BY <1>0, <1>3, <2>who DEF Reopen, SameRow, Shape, Rows, Users
  <2>new. \/ /\ \/ profile[who].status = "rejected"
                \/ profile[who].status = "active" /\ who \in contested
             /\ profile'[who] = [profile[who] EXCEPT !.status = "pending"]
             /\ profile'[who].status = "pending" /\ profile'[who].life = profile[who].life
             /\ announced' = [announced EXCEPT ![who] = @ + 1]
          \/ profile' = profile /\ announced' = announced
    <3>1. SameRow => \/ profile[who].status = "rejected"
                     \/ profile[who].status = "active" /\ who \in contested
      BY <1>3, <2>who DEF Reopen, IInv, SignInReads, Callbacks
    <3> QED
      BY <1>0, <1>3, <2>who, <3>1 DEF Reopen, Shape, Rows, Users
  <2>else. /\ callback.at = "reopen"
           /\ callback' \in {[callback EXCEPT !.at = "email"], NoCallback}
           /\ UNCHANGED <<now, session, request, review, told, approved, contested, overtaken>>
    BY <1>3 DEF Reopen
  <2>1. Shape'
    <3>1. callback' \in Callbacks \cup {NoCallback}
      BY <2>who, <2>else DEF Callbacks
    <3>2. profile' \in [Users -> Rows]
      <4>1. profile[who] \in Rows /\ profile \in [Users -> Rows]
        BY <1>0, <2>who DEF Shape, Users
      <4>2. profile'[who] \in Rows
        BY <2>new, <4>1 DEF Rows
      <4> QED
        BY <2>rest, <4>1, <4>2
    <3>3. announced' \in [People -> Nat]
      BY <1>0, <2>who, <2>new DEF Shape
    <3> QED
      BY <1>0, <2>else, <3>1, <3>2, <3>3 DEF Shape
  <2>2. AdminsStay'
    BY <1>0, <2>who, <2>rest DEF AdminsStay, Users
  <2>3. EntryApproved'
    <3>1. \A p \in People : /\ p \in Users /\ (p = who \/ profile'[p] = profile[p])
                             /\ profile[p].life \in Nat /\ approved[p] \in Nat
                             /\ session[p] \in Nat /\ request[p] \in Nat
      BY <1>0, <2>rest DEF Shape, Rows, Users
    <3>2. \A p \in People :
            /\ session'[p] <= approved'[p] /\ request'[p] <= approved'[p]
            /\ approved'[p] <= profile'[p].life
            /\ profile'[p].status = "active" => approved'[p] = profile'[p].life
      BY <1>0, <2>who, <2>new, <2>else, <3>1 DEF EntryApproved
    <3>3. \A a \in Users : review'[a] # NoReview =>
            review'[a].life <= profile'[review'[a].target].life
      <4>1. \A a \in Users : review[a] # NoReview =>
              review[a].life \in Nat /\ review[a].target \in People
        BY <1>0 DEF Shape, Reviews
      <4>2. \A p \in People : profile'[p].life >= profile[p].life
        BY <2>new, <3>1
      <4>3. \A a \in Users : review[a] # NoReview =>
              review[a].life <= profile[review[a].target].life
        BY <1>0 DEF EntryApproved
      <4>4. \A p \in People : profile'[p].life \in Nat
        BY <2>1 DEF Shape, Rows, Users
      <4> QED
        BY <2>else, <3>1, <4>1, <4>2, <4>3, <4>4
    <3> QED
      BY <1>0, <2>who, <2>else, <3>2, <3>3 DEF EntryApproved, Callbacks
  <2>4. NoMailWithoutAddress'
    BY <1>0, <1>3 DEF Reopen, SameRow, Shape, Rows, Callbacks, NoMailWithoutAddress, Users
  <2>5. ToldWhatStands' /\ EveryRequestAnnounced'
    <3>1. \A p \in People : profile'[p] = profile[p] \/ p = who
      BY <2>rest DEF Users
    <3>2. ToldWhatStands'
      BY <1>0, <2>new, <2>else, <3>1 DEF ToldWhatStands
    <3>3. CASE profile' = profile /\ announced' = announced
      BY <1>0, <3>2, <3>3 DEF EveryRequestAnnounced
    <3>4. CASE /\ profile[who].status # "pending" /\ profile'[who].status = "pending"
               /\ announced' = [announced EXCEPT ![who] = @ + 1]
      <4>1. announced[who] = 0
        BY <1>0, <2>who, <3>4 DEF EveryRequestAnnounced
      <4>2. \A p \in People : announced'[p] = IF p = who THEN 1 ELSE announced[p]
        BY <1>0, <3>4, <4>1 DEF Shape
      <4> QED
        BY <1>0, <3>1, <3>2, <3>4, <4>2 DEF EveryRequestAnnounced
    <3> QED
      BY <2>new, <3>2, <3>3, <3>4
  <2>6. NoRivalReview'
    BY <1>0, <2>who, <2>rest, <2>new, <2>else DEF Shape, Rows, NoRivalReview, Users
  <2> QED
    BY <2>1, <2>2, <2>3, <2>4, <2>5, <2>6
<1>4. ASSUME CheckBan PROVE Parts
  <2>1. Shape'
    BY <1>0, <1>4 DEF CheckBan, SameRow, IsBanned, Shape, Rows, Callbacks, Reviews, Users, Indefinite
  <2>2. AdminsStay'
    BY <1>0, <1>4 DEF CheckBan, SameRow, IsBanned, Shape, Rows, Callbacks, AdminsStay, Users
  <2>3. EntryApproved'
    BY <1>0, <1>4 DEF CheckBan, SameRow, IsBanned, Shape, Rows, Callbacks, Reviews, EntryApproved, Users
  <2>4. NoMailWithoutAddress'
    BY <1>0, <1>4 DEF CheckBan, SameRow, IsBanned, Shape, Rows, Callbacks, NoMailWithoutAddress, Users
  <2>5. ToldWhatStands' /\ EveryRequestAnnounced'
    BY <1>0, <1>4 DEF CheckBan, SameRow, IsBanned, Shape, Rows, Callbacks, ToldWhatStands, EveryRequestAnnounced, NoMailWithoutAddress, Users
  <2>6. NoRivalReview'
    BY <1>0, <1>4 DEF CheckBan, SameRow, IsBanned, Shape, Rows, Callbacks, Reviews, EntryApproved, NoRivalReview, Users
  <2> QED
    BY <2>1, <2>2, <2>3, <2>4, <2>5, <2>6
<1>5. ASSUME StoreLoginEmail PROVE Parts
  <2> DEFINE who == callback.who
  <2>who. callback \in Callbacks /\ who \in People
    BY <1>0, <1>5 DEF StoreLoginEmail, Shape, Callbacks
  <2>rest. /\ profile' = [profile EXCEPT ![who] = profile'[who]]
          /\ \A u \in Users \ {who} : profile'[u] = profile[u]
    BY <1>0, <1>5, <2>who DEF StoreLoginEmail, SameRow, AfterEmail, Shape, Rows, Users
  <2>new. \/ profile' = profile
          \/ /\ callback.email # "none" /\ profile[who].status # "none"
             /\ profile'[who] = [profile[who] EXCEPT !.email = callback.email]
    BY <1>0, <1>5, <2>who DEF StoreLoginEmail, SameRow, Shape, Users, IInv, SignInReads, Callbacks
  <2>else. /\ callback' \in {AfterEmail, NoCallback}
           /\ UNCHANGED <<now, session, request, review, told, announced, approved, contested, overtaken>>
    BY <1>5 DEF StoreLoginEmail
  <2>row. profile[who] \in Rows /\ profile \in [Users -> Rows]
    BY <1>0, <2>who DEF Shape, Users
  <2>same. \A p \in People : /\ profile'[p].status = profile[p].status
                              /\ profile'[p].life = profile[p].life
                              /\ \/ profile'[p].email = profile[p].email
                                 \/ profile'[p].email # "none" /\ profile[p].status # "none"
    <3>1. \A p \in People : p = who \/ profile'[p] = profile[p]
      BY <2>rest DEF Users
    <3> QED
      BY <2>new, <2>row, <3>1 DEF Rows
  <2>1. Shape'
    <3>1. callback' \in Callbacks \cup {NoCallback}
      BY <2>who, <2>else DEF Callbacks, AfterEmail
    <3>2. profile'[who] \in Rows
      BY <2>new, <2>who, <2>row DEF Rows, Callbacks
    <3>3. profile' \in [Users -> Rows]
      BY <2>rest, <2>row, <3>2
    <3> QED
      BY <1>0, <2>else, <3>1, <3>3 DEF Shape
  <2>2. AdminsStay'
    BY <1>0, <2>who, <2>rest DEF AdminsStay, Users
  <2> HIDE DEF who
  <2>3. EntryApproved'
    <3>1. callback' # NoCallback =>
            /\ callback'.who = callback.who /\ callback'.life = callback.life
            /\ callback'.status = "active" /\ callback.status = "active"
      BY <2>who, <2>else DEF AfterEmail, Callbacks
    <3>2. callback # NoCallback
      BY <1>5 DEF StoreLoginEmail
    <3>3. \A a \in Users : review[a] # NoReview => review[a].target \in People
      BY <1>0 DEF Shape, Reviews
    <3> QED
      BY <1>0, <2>else, <2>same, <3>1, <3>2, <3>3 DEF EntryApproved
  <2>4. NoMailWithoutAddress'
    BY <1>0, <2>else, <2>same DEF NoMailWithoutAddress
  <2>5. ToldWhatStands' /\ EveryRequestAnnounced'
    BY <1>0, <2>else, <2>same DEF ToldWhatStands, EveryRequestAnnounced
  <2>6. NoRivalReview'
    BY <1>0, <2>else, <2>same DEF NoRivalReview
  <2> QED
    BY <2>1, <2>2, <2>3, <2>4, <2>5, <2>6
<1>6. ASSUME Seat PROVE Parts
  <2>1. Shape'
    BY <1>0, <1>6 DEF Seat, Shape, Rows, Callbacks, Reviews, Users, Indefinite
  <2>2. AdminsStay'
    BY <1>0, <1>6 DEF Seat, Shape, Rows, Callbacks, AdminsStay, Users
  <2>3. EntryApproved'
    BY <1>0, <1>6 DEF Seat, Shape, Rows, Callbacks, Reviews, EntryApproved, Users
  <2>4. NoMailWithoutAddress'
    BY <1>0, <1>6 DEF Seat, Shape, Rows, Callbacks, NoMailWithoutAddress, Users
  <2>5. ToldWhatStands' /\ EveryRequestAnnounced'
    BY <1>0, <1>6 DEF Seat, Shape, Rows, Callbacks, ToldWhatStands, EveryRequestAnnounced, NoMailWithoutAddress, Users
  <2>6. NoRivalReview'
    BY <1>0, <1>6 DEF Seat, Shape, Rows, Callbacks, Reviews, EntryApproved, NoRivalReview, Users
  <2> QED
    BY <2>1, <2>2, <2>3, <2>4, <2>5, <2>6
<1>7. ASSUME ReadRejected PROVE Parts
  <2>1. callback' \in Callbacks \cup {NoCallback}
    BY <1>0, <1>7 DEF ReadRejected, Shape, Callbacks
  <2>2. UNCHANGED <<now, profile, session, request, review, told, announced, approved, contested>>
    BY <1>7 DEF ReadRejected
  <2>3. overtaken' \subseteq People
    BY <1>0, <1>7 DEF ReadRejected, Shape
  <2>4. callback' # NoCallback =>
          /\ callback'.who = callback.who /\ callback'.life = callback.life
          /\ callback'.status = callback.status
          /\ callback'.at \in {"ban", "seat"} => callback'.status = "active"
    BY <1>0, <1>7 DEF ReadRejected, Shape, Callbacks
  <2>5. callback # NoCallback
    BY <1>7 DEF ReadRejected
  <2> QED
    BY <1>0, <2>1, <2>2, <2>3, <2>4, <2>5
    DEF Shape, AdminsStay, EntryApproved, NoMailWithoutAddress, ToldWhatStands,
        EveryRequestAnnounced, NoRivalReview
<1>8. ASSUME ReadLoginEmail PROVE Parts
  <2>1. callback' \in Callbacks \cup {NoCallback}
    BY <1>0, <1>8 DEF ReadLoginEmail, AfterEmail, Shape, Callbacks
  <2>2. UNCHANGED <<now, profile, session, request, review, told, announced, approved, contested>>
    BY <1>8 DEF ReadLoginEmail
  <2>3. overtaken' \subseteq People
    BY <1>0, <1>8 DEF ReadLoginEmail, Shape
  <2>4. callback' # NoCallback =>
          /\ callback'.who = callback.who /\ callback'.life = callback.life
          /\ callback'.status = callback.status
          /\ callback'.at \in {"ban", "seat"} => callback'.status = "active"
    BY <1>0, <1>8 DEF ReadLoginEmail, AfterEmail, Shape, Callbacks
  <2>5. callback # NoCallback
    BY <1>8 DEF ReadLoginEmail
  <2> QED
    BY <1>0, <2>1, <2>2, <2>3, <2>4, <2>5
    DEF Shape, AdminsStay, EntryApproved, NoMailWithoutAddress, ToldWhatStands,
        EveryRequestAnnounced, NoRivalReview
<1> HIDE DEF Parts
<1>9. Parts
  BY <1>1, <1>2, <1>3, <1>4, <1>5, <1>6, <1>7, <1>8 DEF SignIn
<1> QED
  BY <1>9 DEF Tables, Parts

LEMMA BrowseStep == ASSUME NEW q \in People, IInv, Browse(q) PROVE Tables'
<1> USE AccountsAssumption DEF ghosts, Exists, Row, NoCallback, NotBanned, NoAccount
<1> DEFINE Parts == /\ Shape' /\ AdminsStay' /\ EntryApproved' /\ NoMailWithoutAddress'
                    /\ ToldWhatStands' /\ EveryRequestAnnounced' /\ NoRivalReview'
<1>0. Shape /\ AdminsStay /\ EntryApproved /\ NoMailWithoutAddress
      /\ ToldWhatStands /\ EveryRequestAnnounced /\ NoRivalReview
  BY DEF IInv, Tables
<1>1. ASSUME BeginRequest(q) PROVE Parts
  <2>1. Shape'
    <3>1. session' \in [People -> 0..MaxLives] /\ request' \in [People -> 0..MaxLives]
      <4>1. session[q] \in 0..MaxLives /\ 0 \in 0..MaxLives
        BY <1>0 DEF Shape
      <4> QED
        BY <1>0, <1>1, <4>1 DEF BeginRequest, Shape
    <3> QED
      BY <1>0, <1>1, <3>1 DEF BeginRequest, Shape
  <2>2. AdminsStay'
    BY <1>0, <1>1 DEF BeginRequest, AccessState, IsBanned, Shape, AdminsStay, Users
  <2>3. EntryApproved'
    BY <1>0, <1>1 DEF BeginRequest, AccessState, IsBanned, Shape, Rows, Callbacks, Reviews, EntryApproved, Users
  <2>4. NoMailWithoutAddress'
    BY <1>0, <1>1 DEF BeginRequest, AccessState, IsBanned, Shape, Rows, NoMailWithoutAddress, Users
  <2>5. ToldWhatStands' /\ EveryRequestAnnounced'
    BY <1>0, <1>1 DEF BeginRequest, AccessState, IsBanned, Shape, Rows, ToldWhatStands, EveryRequestAnnounced, Users
  <2>6. NoRivalReview'
    BY <1>0, <1>1 DEF BeginRequest, AccessState, IsBanned, Shape, Rows, Reviews, NoRivalReview, Users
  <2> QED
    BY <2>1, <2>2, <2>3, <2>4, <2>5, <2>6
<1>2. ASSUME EndRequest(q) PROVE Parts
  <2>1. Shape'
    BY <1>0, <1>2 DEF EndRequest, Shape, Rows, Reviews, Users
  <2>2. AdminsStay'
    BY <1>0, <1>2 DEF EndRequest, Shape, AdminsStay, Users
  <2>3. EntryApproved'
    BY <1>0, <1>2 DEF EndRequest, Shape, Rows, Callbacks, Reviews, EntryApproved, Users
  <2>4. NoMailWithoutAddress'
    BY <1>0, <1>2 DEF EndRequest, Shape, Rows, NoMailWithoutAddress, Users
  <2>5. ToldWhatStands' /\ EveryRequestAnnounced'
    BY <1>0, <1>2 DEF EndRequest, Shape, Rows, ToldWhatStands, EveryRequestAnnounced, Users
  <2>6. NoRivalReview'
    BY <1>0, <1>2 DEF EndRequest, Shape, Rows, Reviews, NoRivalReview, Users
  <2> QED
    BY <2>1, <2>2, <2>3, <2>4, <2>5, <2>6
<1>3. ASSUME Logout(q) PROVE Parts
  <2>1. Shape'
    BY <1>0, <1>3 DEF Logout, Shape, Rows, Reviews, Users
  <2>2. AdminsStay'
    BY <1>0, <1>3 DEF Logout, Shape, AdminsStay, Users
  <2>3. EntryApproved'
    BY <1>0, <1>3 DEF Logout, Shape, Rows, Callbacks, Reviews, EntryApproved, Users
  <2>4. NoMailWithoutAddress'
    BY <1>0, <1>3 DEF Logout, Shape, Rows, NoMailWithoutAddress, Users
  <2>5. ToldWhatStands' /\ EveryRequestAnnounced'
    BY <1>0, <1>3 DEF Logout, Shape, Rows, ToldWhatStands, EveryRequestAnnounced, Users
  <2>6. NoRivalReview'
    BY <1>0, <1>3 DEF Logout, Shape, Rows, Reviews, NoRivalReview, Users
  <2> QED
    BY <2>1, <2>2, <2>3, <2>4, <2>5, <2>6
<1>4. ASSUME NEW email \in {"none", "own"}, SaveProfile(q, email) PROVE Parts
  <2>1. Shape'
    <3>1. session' \in [People -> 0..MaxLives] /\ request' \in [People -> 0..MaxLives]
      <4>1. request[q] \in 0..MaxLives /\ 0 \in 0..MaxLives
        BY <1>0 DEF Shape
      <4> QED
        BY <1>0, <1>4, <4>1 DEF SaveProfile, Shape
    <3>2. profile' \in [Users -> Rows]
      <4>1. profile[q] \in Rows /\ email \in {"none", "login", "own"}
        BY <1>0, <1>4 DEF Shape, Users
      <4>2. [profile[q] EXCEPT !.email = email] \in Rows
        BY <4>1 DEF Rows
      <4> QED
        BY <1>0, <1>4, <4>2 DEF SaveProfile, Shape
    <3>3. told' \in [People -> {"none", "received", "approved", "rejected"}]
      BY <1>0, <1>4 DEF SaveProfile, Shape
    <3> QED
      BY <1>0, <1>4, <3>1, <3>2, <3>3 DEF SaveProfile, Shape
  <2>2. AdminsStay'
    BY <1>0, <1>4 DEF SaveProfile, Shape, AdminsStay, Users
  <2>3. EntryApproved'
    <3>1. \A p \in People : /\ profile'[p].status = profile[p].status
                             /\ profile'[p].life = profile[p].life
      BY <1>0, <1>4 DEF SaveProfile, Shape, Rows, Users
    <3>2. \A p \in People : session'[p] \in {session[p], request[p]} /\ request'[p] \in {request[p], 0}
      BY <1>0, <1>4 DEF SaveProfile, Shape
    <3>3. UNCHANGED <<callback, review, approved>>
      BY <1>4 DEF SaveProfile
    <3>4. \A p \in People : approved[p] \in Nat
      BY <1>0 DEF Shape
    <3>5. \A p \in People : session'[p] <= approved[p] /\ request'[p] <= approved[p]
      BY <1>0, <3>2, <3>4 DEF EntryApproved
    <3>6. \A a \in Users : review[a] # NoReview => review[a].target \in People
      BY <1>0 DEF Shape, Reviews
    <3> QED
      BY <1>0, <3>1, <3>3, <3>5, <3>6 DEF EntryApproved
  <2>4. NoMailWithoutAddress'
    BY <1>0, <1>4 DEF SaveProfile, Shape, Rows, NoMailWithoutAddress, Users
  <2>5. ToldWhatStands' /\ EveryRequestAnnounced'
    <3>1. \A p \in People : profile'[p].status = profile[p].status
      BY <1>0, <1>4 DEF SaveProfile, Shape, Rows, Users
    <3>2. \A p \in People : told'[p] \in {"none", told[p]}
      BY <1>0, <1>4 DEF SaveProfile, Shape
    <3>3. announced' = announced /\ contested' = contested
      BY <1>4 DEF SaveProfile
    <3> QED
      BY <1>0, <3>1, <3>2, <3>3 DEF ToldWhatStands, EveryRequestAnnounced
  <2>6. NoRivalReview'
    BY <1>0, <1>4 DEF SaveProfile, Shape, Rows, Reviews, NoRivalReview, Users
  <2> QED
    BY <2>1, <2>2, <2>3, <2>4, <2>5, <2>6
<1> HIDE DEF Parts
<1>5. Parts
  BY <1>1, <1>2, <1>3, <1>4 DEF Browse
<1> QED
  BY <1>5 DEF Tables, Parts

LEMMA BootstrapStep == ASSUME NEW q \in Founders, IInv, Bootstrap(q) PROVE Tables'
<1> USE AccountsAssumption DEF ghosts, Exists, NoCallback, NotBanned, NoAccount
<1>0. Shape /\ AdminsStay /\ EntryApproved /\ NoMailWithoutAddress
      /\ ToldWhatStands /\ EveryRequestAnnounced /\ NoRivalReview
  BY DEF IInv, Tables
<1>1. CASE Exists(q)
  <2>1. UNCHANGED vars
    BY <1>1 DEF Bootstrap, vars
  <2> QED
    BY <2>1, StutterStep
<1>2. CASE ~Exists(q)
  <2> DEFINE row == Row("active", profile[q].life + 1, TRUE, "none")
  <2>1. /\ q \in People /\ profile[q].status = "none" /\ profile[q].life < MaxLives
        /\ profile' = [profile EXCEPT ![q] = row]
        /\ approved' = [approved EXCEPT ![q] = profile[q].life + 1]
        /\ UNCHANGED <<now, callback, session, request, review, told, announced, contested, overtaken>>
    BY <1>2 DEF Bootstrap
  <2>2. row \in Rows /\ profile[q].life \in Nat /\ profile[q].life + 1 \in 0..MaxLives
    BY <1>0, <2>1 DEF Shape, Rows, Row, Users, Indefinite
  <2>3. /\ row.status = "active" /\ row.life = profile[q].life + 1 /\ row.email = "none"
    BY DEF Row
  <2> HIDE DEF row
  <2>4. /\ profile'[q] = row /\ approved'[q] = profile[q].life + 1
        /\ \A p \in People \ {q} : profile'[p] = profile[p] /\ approved'[p] = approved[p]
    BY <1>0, <2>1 DEF Shape, Users
  <2>5. Shape'
    BY <1>0, <2>1, <2>2 DEF Shape
  <2>6. AdminsStay'
    BY <1>0, <2>1 DEF Shape, AdminsStay, Users
  <2>7. EntryApproved'
    BY <1>0, <2>1, <2>2, <2>3, <2>4 DEF Shape, Rows, Callbacks, Reviews, EntryApproved, Users
  <2>8. NoMailWithoutAddress'
    BY <1>0, <2>1, <2>3, <2>4 DEF NoMailWithoutAddress
  <2>9. ToldWhatStands' /\ EveryRequestAnnounced'
    BY <1>0, <2>1, <2>3, <2>4 DEF ToldWhatStands, EveryRequestAnnounced, NoMailWithoutAddress
  <2>10. NoRivalReview'
    BY <1>0, <2>1, <2>2, <2>3, <2>4 DEF Shape, Reviews, EntryApproved, NoRivalReview
  <2> QED
    BY <2>5, <2>6, <2>7, <2>8, <2>9, <2>10 DEF Tables
<1> QED
  BY <1>1, <1>2

LEMMA OpenReviewStep ==
  ASSUME NEW a \in Users, NEW u \in Users, IInv, OpenReview(a, u) PROVE Tables'
<1> USE AccountsAssumption DEF ghosts, Exists, Row, NoCallback, NotBanned, NoAccount
<1>0. Shape /\ AdminsStay /\ EntryApproved /\ NoMailWithoutAddress
      /\ ToldWhatStands /\ EveryRequestAnnounced /\ NoRivalReview
  BY DEF IInv, Tables
<1>1. Shape'
  <2>1. PICK op \in {"active", "rejected", "ban", "unban", "delete"}, d \in Bans \cup {Indefinite} :
          /\ op \in {"active", "rejected"} => profile[u].status = "pending"
          /\ op \in {"ban", "delete", "unban"} => ~profile[u].is_admin
          /\ review' = [review EXCEPT ![a] =
               [op |-> op, target |-> u, life |-> profile[u].life, until |-> Until(u, d)]]
    BY DEF OpenReview, Reviewable, Untouchable
  <2>2. Until(u, d) \in 0..Indefinite
    BY <1>0 DEF Until, Indefinite, Shape
  <2>3. u \in People
    BY <1>0, <2>1 DEF AdminsStay, Users
  <2>4. profile[u].life \in 0..MaxLives
    BY <1>0 DEF Shape, Rows
  <2>5. [op |-> op, target |-> u, life |-> profile[u].life, until |-> Until(u, d)] \in Reviews
    BY <2>2, <2>3, <2>4 DEF Reviews
  <2> QED
    BY <1>0, <2>1, <2>5 DEF OpenReview, Shape
<1>2. AdminsStay'
  BY <1>0 DEF OpenReview, IsAdmin, Visits, IsBanned, Reviewable, Untouchable, Until, Shape, AdminsStay, Users
<1>3. EntryApproved'
  BY <1>0 DEF OpenReview, IsAdmin, Visits, IsBanned, Reviewable, Untouchable, Until, Shape, Rows, Callbacks, Reviews, EntryApproved, Users
<1>4. NoMailWithoutAddress'
  BY <1>0 DEF OpenReview, IsAdmin, Visits, IsBanned, Reviewable, Untouchable, Until, Shape, Rows, NoMailWithoutAddress, Users
<1>5. ToldWhatStands' /\ EveryRequestAnnounced'
  BY <1>0 DEF OpenReview, IsAdmin, Visits, IsBanned, Reviewable, Untouchable, Until, Shape, Rows, ToldWhatStands, EveryRequestAnnounced, Users
<1>6. NoRivalReview'
  BY <1>0 DEF OpenReview, IsAdmin, Visits, IsBanned, Reviewable, Untouchable, Until, Shape, Rows, Reviews, NoRivalReview, Users
<1> QED
  BY <1>1, <1>2, <1>3, <1>4, <1>5, <1>6 DEF Tables

\* What a review closed does to the row of its target u and to the mails on it.
LEMMA CloseReviewStep == ASSUME NEW a \in Users, IInv, CloseReview(a) PROVE Tables'
<1> DEFINE r == review[a]
           u == r.target
<1> USE AccountsAssumption
<1>0. Shape /\ AdminsStay /\ EntryApproved /\ NoMailWithoutAddress
      /\ ToldWhatStands /\ EveryRequestAnnounced /\ NoRivalReview
  BY DEF IInv, Tables
<1>1. /\ r \in Reviews /\ u \in People /\ u \in Users /\ u \notin Admins
      /\ r.op \in {"active", "rejected", "ban", "unban", "delete"}
      /\ r.life \in 0..MaxLives /\ r.until \in 0..Indefinite
  BY <1>0 DEF CloseReview, Shape, Reviews, Users
<1>2. /\ review' = [review EXCEPT ![a] = NoReview]
      /\ UNCHANGED <<now, callback, session, request>>
  BY DEF CloseReview
<1>3. profile[u] \in Rows /\ profile[u].life \in 0..MaxLives
  BY <1>0, <1>1 DEF Shape, Rows
<1>4. review' \in [Users -> Reviews \cup {NoReview}]
      /\ \A b \in Users : review'[b] = NoReview \/ (b # a /\ review'[b] = review[b])
  <2>1. review \in [Users -> Reviews \cup {NoReview}]
    BY <1>0 DEF Shape
  <2> HIDE DEF r, u
  <2> QED
    BY <1>2, <2>1
<1>5. CASE UNCHANGED <<profile, ghosts>>
  <2>1. Shape' /\ AdminsStay'
    BY <1>0, <1>2, <1>4, <1>5 DEF Shape, AdminsStay, ghosts
  <2>2. EntryApproved'
    BY <1>0, <1>2, <1>4, <1>5 DEF EntryApproved, ghosts
  <2>3. NoMailWithoutAddress' /\ ToldWhatStands' /\ EveryRequestAnnounced'
    BY <1>0, <1>5 DEF NoMailWithoutAddress, ToldWhatStands, EveryRequestAnnounced, ghosts
  <2>4. NoRivalReview'
    BY <1>0, <1>4, <1>5 DEF NoRivalReview, ghosts
  <2> QED
    BY <2>1, <2>2, <2>3, <2>4 DEF Tables
<1>6. CASE Exists(u) /\ profile[u].life = r.life
  <2> DEFINE old == profile[u]
             new == profile'[u]
  \* The four ways to change the row.
  <2>1. \/ /\ r.op \in {"active", "rejected"}
           /\ profile' = [profile EXCEPT ![u].status = r.op]
           /\ told' = [told EXCEPT ![u] = MailOf(u, r.op)]
           /\ approved' = [approved EXCEPT ![u] = IF r.op = "active" THEN r.life ELSE @]
           /\ contested' = IF \E b \in Users \ {a} : /\ review[b] # NoReview
                                                    /\ review[b].target = u
                           THEN contested \cup {u} ELSE contested
           /\ announced' = [announced EXCEPT ![u] = 0]
           /\ UNCHANGED overtaken
        \/ /\ \E t \in 0..Indefinite : profile' = [profile EXCEPT ![u].banned_until = t]
           /\ UNCHANGED ghosts
        \/ /\ profile' = [profile EXCEPT ![u] = Row("none", r.life, FALSE, "none")]
           /\ told' = [told EXCEPT ![u] = "none"]
           /\ announced' = [announced EXCEPT ![u] = 0]
           /\ contested' = contested \ {u}
           /\ UNCHANGED <<approved, overtaken>>
    <3>1. NotBanned \in 0..Indefinite
      BY DEF NotBanned, Indefinite
    <3> QED
      BY <1>1, <1>6, <3>1 DEF CloseReview
  <2>2. CASE /\ r.op \in {"active", "rejected"}
             /\ profile' = [profile EXCEPT ![u].status = r.op]
             /\ told' = [told EXCEPT ![u] = MailOf(u, r.op)]
             /\ approved' = [approved EXCEPT ![u] = IF r.op = "active" THEN r.life ELSE @]
             /\ contested' = IF \E b \in Users \ {a} : /\ review[b] # NoReview
                                                      /\ review[b].target = u
                             THEN contested \cup {u} ELSE contested
             /\ announced' = [announced EXCEPT ![u] = 0]
             /\ UNCHANGED overtaken
    <3>1. /\ new \in Rows /\ new.status = r.op /\ new.life = old.life /\ new.email = old.email
          /\ profile' = [profile EXCEPT ![u] = new]
      BY <1>0, <1>1, <1>3, <2>2 DEF Shape, Rows
    <3>2. /\ MailOf(u, r.op) \in {"none", "received", "approved", "rejected"}
          /\ old.email = "none" => MailOf(u, r.op) = "none"
          /\ MailOf(u, r.op) = "approved" => r.op = "active"
          /\ MailOf(u, r.op) = "rejected" => r.op = "rejected"
      <4>1. /\ told[u] \in {"none", "received", "approved", "rejected"}
            /\ old.email = "none" => told[u] = "none"
        BY <1>0, <1>1 DEF Shape, NoMailWithoutAddress
      <4>2. r.op \in {"active", "rejected"}
        BY <2>2
      <4>3. MailOf(u, r.op) = IF old.email = "none" THEN told[u]
                              ELSE IF r.op = "active" THEN "approved" ELSE "rejected"
        BY DEF MailOf
      <4> HIDE DEF old, r, u
      <4> QED
        BY <4>1, <4>2, <4>3
    <3> HIDE DEF new
    <3>3. /\ \A p \in People \ {u} : /\ profile'[p] = profile[p] /\ told'[p] = told[p]
                                  /\ approved'[p] = approved[p] /\ announced'[p] = announced[p]
          /\ profile'[u] = new /\ told'[u] = MailOf(u, r.op) /\ announced'[u] = 0
          /\ approved'[u] = IF r.op = "active" THEN r.life ELSE approved[u]
      BY <1>0, <1>1, <2>2, <3>1 DEF Shape, Users
    <3>4. Shape'
      BY <1>0, <1>1, <1>2, <1>4, <2>2, <3>1, <3>2 DEF Shape
    <3>5. AdminsStay'
      BY <1>0, <1>1, <3>1 DEF Shape, AdminsStay, Users
    <3>6. EntryApproved'
      <4>1. \A p \in People : /\ session[p] \in Nat /\ request[p] \in Nat /\ approved[p] \in Nat
                              /\ profile'[p].life = profile[p].life
                              /\ approved'[p] >= approved[p] /\ approved'[p] \in Nat
                              /\ approved'[p] <= profile'[p].life
        BY <1>0, <1>1, <1>6, <3>1, <3>3 DEF Shape, EntryApproved
      <4>2. \A p \in People : profile'[p].status = "active" => approved'[p] = profile'[p].life
        BY <1>0, <1>1, <1>6, <3>1, <3>3 DEF EntryApproved
      <4>3. \A b \in Users : review'[b] # NoReview =>
              review'[b].life <= profile'[review'[b].target].life
        BY <1>0, <1>4, <4>1 DEF EntryApproved, Shape, Reviews
      <4>4. callback # NoCallback => callback.who \in People /\ callback.life \in Nat
        BY <1>0 DEF Shape, Callbacks
      <4>5. \A p \in People : session'[p] <= approved'[p] /\ request'[p] <= approved'[p]
        BY <1>0, <1>2, <4>1 DEF EntryApproved
      <4> QED
        BY <1>0, <1>2, <4>1, <4>2, <4>3, <4>4, <4>5 DEF EntryApproved
    <3>7. NoMailWithoutAddress' /\ ToldWhatStands' /\ EveryRequestAnnounced'
      BY <1>0, <1>1, <2>2, <3>1, <3>2, <3>3
      DEF NoMailWithoutAddress, ToldWhatStands, EveryRequestAnnounced
    <3>8. NoRivalReview'
      <4>1. \A p \in People \ contested' :
              p \notin contested /\ (p = u => \A b \in Users \ {a} : review[b] = NoReview \/ review[b].target # u)
        BY <2>2
      <4> QED
        BY <1>0, <1>4, <3>3, <4>1 DEF NoRivalReview
    <3> QED
      BY <3>4, <3>5, <3>6, <3>7, <3>8 DEF Tables
  <2>3. CASE /\ \E t \in 0..Indefinite : profile' = [profile EXCEPT ![u].banned_until = t]
             /\ UNCHANGED ghosts
    <3>1. /\ new \in Rows /\ new.status = old.status /\ new.life = old.life /\ new.email = old.email
          /\ profile' = [profile EXCEPT ![u] = new]
      <4>1. PICK t \in 0..Indefinite : profile' = [profile EXCEPT ![u].banned_until = t]
        BY <2>3
      <4>2. profile \in [Users -> Rows] /\ new = [old EXCEPT !.banned_until = t]
        BY <1>0, <1>1, <4>1 DEF Shape
      <4>3. /\ new \in Rows /\ new.status = old.status /\ new.life = old.life
            /\ new.email = old.email
        BY <1>3, <4>2 DEF Rows
      <4> QED
        BY <1>1, <4>1, <4>2, <4>3
    <3> HIDE DEF new
    <3>2. \A p \in People : /\ profile'[p].status = profile[p].status
                            /\ profile'[p].life = profile[p].life
                            /\ profile'[p].email = profile[p].email
      BY <1>0, <1>1, <3>1 DEF Shape, Users
    <3>3. Shape' /\ AdminsStay'
      BY <1>0, <1>1, <1>2, <1>4, <2>3, <3>1 DEF Shape, AdminsStay, Users, ghosts
    <3>4. EntryApproved'
      BY <1>0, <1>2, <1>4, <2>3, <3>2 DEF EntryApproved, Shape, Reviews, Callbacks, ghosts
    <3>5. NoMailWithoutAddress' /\ ToldWhatStands' /\ EveryRequestAnnounced'
      BY <1>0, <2>3, <3>2 DEF NoMailWithoutAddress, ToldWhatStands, EveryRequestAnnounced, ghosts
    <3>6. NoRivalReview'
      BY <1>0, <1>4, <2>3, <3>2 DEF NoRivalReview, ghosts
    <3> QED
      BY <3>3, <3>4, <3>5, <3>6 DEF Tables
  <2>4. CASE /\ profile' = [profile EXCEPT ![u] = Row("none", r.life, FALSE, "none")]
             /\ told' = [told EXCEPT ![u] = "none"]
             /\ announced' = [announced EXCEPT ![u] = 0]
             /\ contested' = contested \ {u}
             /\ UNCHANGED <<approved, overtaken>>
    <3>1. /\ new \in Rows /\ new.status = "none" /\ new.life = r.life /\ new.email = "none"
          /\ profile' = [profile EXCEPT ![u] = new]
      <4>1. /\ profile \in [Users -> Rows]
            /\ new = [status |-> "none", life |-> r.life, is_admin |-> FALSE,
                      banned_until |-> 0, email |-> "none"]
        BY <1>0, <1>1, <2>4 DEF Shape, Row, NotBanned
      <4>2. 0 \in 0..Indefinite
        BY DEF Indefinite
      <4>3. new \in Rows /\ new.status = "none" /\ new.life = r.life /\ new.email = "none"
        BY <1>1, <4>1, <4>2 DEF Rows
      <4> QED
        BY <1>1, <2>4, <4>1, <4>3
    <3> HIDE DEF new
    <3>2. /\ \A p \in People \ {u} : /\ profile'[p] = profile[p] /\ told'[p] = told[p]
                                  /\ announced'[p] = announced[p]
          /\ profile'[u] = new /\ told'[u] = "none" /\ announced'[u] = 0
      BY <1>0, <1>1, <2>4, <3>1 DEF Shape, Users
    <3>3. Shape'
      <4>1. /\ profile' \in [Users -> Rows] /\ contested' \subseteq People
            /\ told' \in [People -> {"none", "received", "approved", "rejected"}]
            /\ announced' \in [People -> Nat]
        BY <1>0, <1>1, <2>4, <3>1 DEF Shape
      <4> QED
        BY <1>0, <1>2, <1>4, <2>4, <4>1 DEF Shape
    <3>4. AdminsStay'
      BY <1>0, <1>1, <3>1 DEF Shape, AdminsStay, Users
    <3>5. \A p \in People : profile'[p].life = profile[p].life
      BY <1>1, <1>6, <3>1, <3>2
    <3>6. EntryApproved'
      <4>1. /\ \A p \in People : profile'[p].status = "active" => profile[p].status = "active"
            /\ UNCHANGED <<approved, session, request, callback>>
        BY <1>2, <2>4, <3>1, <3>2
      <4>2. \A p \in People :
              /\ session'[p] <= approved'[p] /\ request'[p] <= approved'[p]
              /\ approved'[p] <= profile'[p].life
              /\ profile'[p].status = "active" => approved'[p] = profile'[p].life
        BY <1>0, <3>5, <4>1 DEF EntryApproved
      <4>3. \A b \in Users : review'[b] # NoReview =>
              review'[b].life <= profile'[review'[b].target].life
        BY <1>0, <1>4, <3>5 DEF EntryApproved, Shape, Reviews
      <4> QED
        BY <1>0, <4>1, <4>2, <4>3 DEF EntryApproved
    <3>7. NoMailWithoutAddress' /\ ToldWhatStands' /\ EveryRequestAnnounced'
      <4>1. \A p \in People \ {u} : p \in contested => p \in contested'
        BY <2>4
      <4> HIDE DEF u
      <4> QED
        BY <1>0, <1>1, <3>1, <3>2, <4>1
        DEF NoMailWithoutAddress, ToldWhatStands, EveryRequestAnnounced
    <3>8. NoRivalReview'
      <4>1. \A p \in People \ contested' :
              profile'[p].status \in {"active", "rejected"} =>
                p \notin contested /\ profile'[p] = profile[p]
        <5>1. contested' = contested \ {u} /\ profile'[u].status = "none"
          BY <2>4, <3>1, <3>2
        <5>2. \A p \in People \ {u} : profile'[p] = profile[p]
          BY <3>2
        <5> HIDE DEF u
        <5> QED
          BY <5>1, <5>2
      <4> QED
        BY <1>0, <1>4, <4>1 DEF NoRivalReview
    <3> QED
      BY <3>3, <3>4, <3>6, <3>7, <3>8 DEF Tables
  <2> QED
    BY <2>1, <2>2, <2>3, <2>4
<1> QED
  BY <1>5, <1>6 DEF CloseReview

\* The tables keep their invariant whatever step is taken.
LEMMA TablesStep == ASSUME IInv, [Next]_vars PROVE Tables'
<1>1. CASE Clock
  <2>1. now' \in 0..MaxNow
    BY <1>1, AccountsAssumption DEF Clock, IInv, Tables, Shape
  <2> QED
    BY <1>1, <2>1 DEF Clock, IInv, Tables, ghosts, Shape, AdminsStay, EntryApproved,
                      NoMailWithoutAddress, ToldWhatStands, EveryRequestAnnounced, NoRivalReview
<1>2. CASE UNCHANGED vars
  BY <1>2, StutterStep
<1> QED
  BY <1>1, <1>2, SignInStep, BootstrapStep, BrowseStep, OpenReviewStep, CloseReviewStep DEF Next

\* The histories a sign-in relies on last as long as the account.
LEMMA HistoryBeside ==
  ASSUME Shape, ~SignIn, [Next]_vars, NEW p \in People
  PROVE  /\ p \in contested /\ Exists(p)' => p \in contested'
         /\ p \in overtaken => p \in overtaken'
<1>1. ASSUME NEW a \in Users, CloseReview(a)
      PROVE  /\ p \in contested /\ Exists(p)' => p \in contested'
             /\ overtaken' = overtaken
  <2> DEFINE rv == review[a]
  <2>1. rv \in Reviews /\ rv.op \in {"active", "rejected", "ban", "unban", "delete"}
    BY <1>1 DEF Shape, CloseReview, Reviews
  <2>2. /\ \/ contested \subseteq contested'
           \/ /\ contested' = contested \ {rv.target}
              /\ profile' = [profile EXCEPT ![rv.target] = Row("none", rv.life, FALSE, "none")]
        /\ overtaken' = overtaken
    BY <1>1, <2>1 DEF CloseReview, ghosts
  <2> HIDE DEF rv
  <2>3. p \in Users /\ profile \in [Users -> Rows]
    BY DEF Shape, Users
  <2>4. (  /\ profile' = [profile EXCEPT ![rv.target] = Row("none", rv.life, FALSE, "none")]
           /\ p = rv.target)
        => ~Exists(p)'
    BY <2>3 DEF Row, Exists
  <2> QED
    BY <2>2, <2>4
<1>2. CASE contested' = contested /\ overtaken \subseteq overtaken'
  BY <1>2
<1>3. \/ contested' = contested /\ overtaken \subseteq overtaken'
      \/ \E a \in Users : CloseReview(a)
  BY DEF Next, vars, ghosts, Clock, Bootstrap, Browse, BeginRequest, EndRequest, SaveProfile,
         Logout, OpenReview
<1> QED
  BY <1>1, <1>2, <1>3

\* What a handler beside the callback may do to the row a sign-in has read.
LEMMA RowBeside ==
  ASSUME Shape, ~SignIn, [Next]_vars, NEW p \in People
  PROVE  /\ profile'[p].life >= profile[p].life
         /\ Exists(p)' /\ profile'[p].life = profile[p].life =>
              /\ Exists(p)
              /\ \/ profile'[p].status = profile[p].status
                 \/ \E a \in Users :
                      /\ CloseReview(a) /\ review[a] # NoReview /\ review[a].target = p
                      /\ review[a].op \in {"active", "rejected"} /\ review[a].life = profile[p].life
                      /\ profile'[p].status = review[a].op
              /\ profile'[p].email = profile[p].email \/ p \in overtaken'
<1>0. profile \in [Users -> Rows] /\ p \in Users /\ profile[p] \in Rows /\ profile[p].life \in Nat
  BY DEF Shape, Users, Rows
<1>1. CASE profile' = profile
  BY <1>0, <1>1 DEF Exists
<1>2. ASSUME NEW q \in Founders, Bootstrap(q) PROVE
         \/ profile'[p] = profile[p]
         \/ profile'[p].life = profile[p].life + 1
  BY <1>0, <1>2 DEF Bootstrap, Row
<1>3. ASSUME NEW q \in People, Browse(q), profile' # profile PROVE
         /\ profile'[p].life = profile[p].life /\ profile'[p].status = profile[p].status
         /\ profile'[p] = profile[p] \/ p \in overtaken'
  <2>1. PICK email \in {"none", "own"} : SaveProfile(q, email)
    BY <1>3 DEF Browse, BeginRequest, EndRequest, Logout
  <2>2. profile' = [profile EXCEPT ![q].email = email] /\ overtaken' = overtaken \cup {q}
    BY <1>3, <2>1 DEF SaveProfile
  <2> QED
    BY <1>0, <2>2 DEF Rows
<1>4. ASSUME NEW a \in Users, CloseReview(a), profile'[p] # profile[p], Exists(p)'
      PROVE  /\ profile'[p].life = profile[p].life /\ profile'[p].email = profile[p].email
             /\ Exists(p)
             /\ \/ profile'[p].status = profile[p].status
                \/ /\ review[a] # NoReview /\ review[a].target = p
                   /\ review[a].op \in {"active", "rejected"} /\ review[a].life = profile[p].life
                   /\ profile'[p].status = review[a].op
  <2> DEFINE rv == review[a]
  <2>1. rv \in Reviews /\ rv.target \in Users
    BY <1>4 DEF Shape, CloseReview, Reviews, Users
  <2>2. /\ Exists(rv.target) /\ profile[rv.target].life = rv.life /\ rv # NoReview
        /\ \/ rv.op \in {"active", "rejected"} /\ profile' = [profile EXCEPT ![rv.target].status = rv.op]
           \/ profile' = [profile EXCEPT ![rv.target].banned_until = rv.until]
           \/ profile' = [profile EXCEPT ![rv.target].banned_until = NotBanned]
           \/ profile' = [profile EXCEPT ![rv.target] = Row("none", rv.life, FALSE, "none")]
    <3>1. rv.op \in {"active", "rejected", "ban", "unban", "delete"}
      BY <2>1 DEF Reviews
    <3> QED
      BY <1>4, <3>1 DEF CloseReview
  <2> HIDE DEF rv
  <2>3. rv.target = p
    BY <1>0, <1>4, <2>1, <2>2
  <2>4. CASE rv.op \in {"active", "rejected"} /\ profile' = [profile EXCEPT ![rv.target].status = rv.op]
    BY <1>0, <2>2, <2>3, <2>4 DEF Rows, rv
  <2>5. CASE \/ profile' = [profile EXCEPT ![rv.target].banned_until = rv.until]
             \/ profile' = [profile EXCEPT ![rv.target].banned_until = NotBanned]
    BY <1>0, <2>2, <2>3, <2>5 DEF Rows
  <2>6. profile' # [profile EXCEPT ![rv.target] = Row("none", rv.life, FALSE, "none")]
    BY <1>0, <1>4, <2>3 DEF Row, Exists
  <2> QED
    BY <2>2, <2>4, <2>5, <2>6
<1>5. ASSUME NEW a \in Users, CloseReview(a) PROVE profile'[p].life = profile[p].life
  <2>1. profile'[p] # profile[p] /\ profile'[p].status = "none" => profile'[p].life = profile[p].life
    <3> DEFINE rv == review[a]
    <3>1. rv \in Reviews /\ rv.op \in {"active", "rejected", "ban", "unban", "delete"}
      BY <1>5 DEF Shape, CloseReview, Reviews
    <3>2. \/ profile' = profile
          \/ /\ profile[rv.target].life = rv.life
             /\ \/ profile' = [profile EXCEPT ![rv.target].status = rv.op]
                \/ profile' = [profile EXCEPT ![rv.target].banned_until = rv.until]
                \/ profile' = [profile EXCEPT ![rv.target].banned_until = NotBanned]
                \/ profile' = [profile EXCEPT ![rv.target] = Row("none", rv.life, FALSE, "none")]
      BY <1>5, <3>1 DEF CloseReview
    <3> HIDE DEF rv
    <3> QED
      BY <1>0, <3>2 DEF Row, Rows
  <2> QED
    BY <1>4, <1>5, <2>1 DEF Exists
<1>6. CASE \E a \in Users : CloseReview(a)
  <2>1. PICK a \in Users : CloseReview(a)
    BY <1>6
  <2> QED
    BY <1>0, <1>4, <1>5, <2>1 DEF Exists
<1>7. CASE \E q \in People : Browse(q)
  BY <1>0, <1>1, <1>3, <1>7 DEF Exists
<1>8. CASE \E q \in Founders : Bootstrap(q)
  BY <1>0, <1>2, <1>8 DEF Exists
<1>9. \/ profile' = profile \/ \E a \in Users : CloseReview(a)
      \/ \E q \in People : Browse(q) \/ \E f \in Founders : Bootstrap(f)
  BY DEF Next, Clock, OpenReview, vars
<1> QED
  BY <1>1, <1>6, <1>7, <1>8, <1>9

\* A sign-in goes on to write only upon what stands as it read it, or upon what
\* an overlapping handler has made of it.
LEMMA SignInReadsStep == ASSUME IInv, [Next]_vars PROVE SignInReads'
<1> DEFINE who == callback.who
<1>0. Shape /\ NoRivalReview /\ SignInReads
  BY DEF IInv, Tables
<1>1. CASE SignIn
  <2>1. ASSUME NEW p \in People, NEW address \in BOOLEAN, Callback(p, address) PROVE SignInReads'
    <3>1. p \in Users /\ profile[p].life \in Nat
      BY <1>0 DEF Shape, Rows, Users
    <3> QED
      BY <2>1, <3>1 DEF Callback, SignInReads
  <2>2. CASE SignUp \/ Seat
    BY <2>2 DEF SignUp, Seat, SignInReads
  <2>3. CASE ReadRejected \/ CheckBan \/ ReadLoginEmail
    <3>1. callback \in Callbacks /\ profile' = profile /\ contested' = contested
      BY <1>0, <2>3 DEF ReadRejected, CheckBan, ReadLoginEmail, Shape, NoCallback, ghosts
    <3>2. callback' # NoCallback =>
            /\ callback'.who = who /\ callback'.life = callback.life
            /\ callback'.at = "reopen" => SameRow /\ profile[who].status = "rejected"
            /\ callback'.at = "fill" =>
                 SameRow /\ profile[who].email = "none" /\ callback'.email # "none"
      BY <2>3, <3>1 DEF ReadRejected, CheckBan, ReadLoginEmail, AfterEmail, Unfilled, Callbacks
    <3>3. callback # NoCallback
      BY <2>3 DEF ReadRejected, CheckBan, ReadLoginEmail, NoCallback
    <3> QED
      BY <1>0, <3>1, <3>2, <3>3 DEF SignInReads
  <2>4. CASE Reopen \/ StoreLoginEmail
    <3>1. callback \in Callbacks /\ callback # NoCallback /\ who \in Users
      BY <1>0, <2>4 DEF Reopen, StoreLoginEmail, Shape, NoCallback, Callbacks, Users
    <3>2. callback' # NoCallback =>
            /\ callback'.who = who /\ callback'.life = callback.life
            /\ callback'.at \in {"email", "seat"}
      BY <2>4, <3>1 DEF Reopen, StoreLoginEmail, AfterEmail, Callbacks
    <3>3. profile'[who].life = profile[who].life
      <4>1. profile \in [Users -> Rows] /\ profile[who] \in Rows
        BY <1>0, <3>1 DEF Shape
      <4>2. \/ profile' = profile
            \/ profile' = [profile EXCEPT ![who].status = "pending"]
            \/ profile' = [profile EXCEPT ![who].email = callback.email]
        BY <2>4 DEF Reopen, StoreLoginEmail
      <4> HIDE DEF who
      <4> QED
        BY <3>1, <4>1, <4>2 DEF Rows
    <3> QED
      BY <1>0, <3>1, <3>2, <3>3 DEF SignInReads
  <2> QED
    BY <1>1, <2>1, <2>2, <2>3, <2>4 DEF SignIn
<1>2. CASE ~SignIn
  <2> SUFFICES ASSUME callback' # NoCallback PROVE SignInReads'
    BY DEF SignInReads
  <2>1. callback' = callback
    BY <1>2 DEF Next, vars, Clock, Bootstrap, Browse, BeginRequest, EndRequest, SaveProfile,
                Logout, OpenReview, CloseReview
  <2>2. callback \in Callbacks /\ callback.life \in Nat
    BY <1>0, <2>1 DEF Shape, Callbacks
  <2>3. PICK p \in People : p = callback.who
    BY <2>2 DEF Callbacks
  <2>4. /\ profile'[p].life >= profile[p].life
        /\ profile[p].life \in Nat /\ profile'[p].life \in Nat
        /\ callback.life <= profile[p].life
    <3>1. profile'[p].life \in Nat
      BY TablesStep DEF Tables, Shape, Rows, Users
    <3>2. profile[p].life \in Nat /\ callback.life <= profile[p].life
      BY <1>0, <2>1, <2>3 DEF Shape, Rows, Users, SignInReads
    <3> QED
      BY <1>0, <1>2, <3>1, <3>2, RowBeside
  <2>5. callback'.life <= profile'[callback'.who].life
    BY <2>1, <2>2, <2>3, <2>4
  <2>6. SameRow' => SameRow /\ Exists(p)' /\ profile'[p].life = profile[p].life
    <3>1. SameRow' => Exists(p)' /\ profile'[p].life = callback.life
      BY <2>1, <2>3 DEF SameRow, Exists
    <3>2. SameRow' => profile'[p].life = profile[p].life /\ profile[p].life = callback.life
      BY <2>2, <2>4, <3>1
    <3>3. SameRow' => Exists(p)
      BY <1>0, <1>2, <3>1, <3>2, RowBeside
    <3> QED
      BY <2>3, <3>1, <3>2, <3>3 DEF SameRow
  <2>7. ASSUME callback.at = "reopen", SameRow'
        PROVE  \/ profile'[p].status = "rejected"
               \/ profile'[p].status = "active" /\ p \in contested'
    <3>1. \/ profile[p].status = "rejected"
          \/ profile[p].status = "active" /\ p \in contested
      BY <1>0, <2>1, <2>3, <2>6, <2>7 DEF SignInReads
    <3>2. p \in contested => p \in contested'
      BY <1>0, <1>2, <2>6, <2>7, HistoryBeside
    <3>3. CASE profile'[p].status = profile[p].status
      BY <3>1, <3>2, <3>3
    <3>4. ASSUME NEW a \in Users, review[a] # NoReview, review[a].target = p,
                 review[a].op \in {"active", "rejected"}, review[a].life = profile[p].life,
                 profile'[p].status = review[a].op
          PROVE  \/ profile'[p].status = "rejected"
                 \/ profile'[p].status = "active" /\ p \in contested'
      BY <1>0, <3>1, <3>2, <3>4 DEF NoRivalReview
    <3>5. \/ profile'[p].status = profile[p].status
          \/ \E a \in Users :
               /\ review[a] # NoReview /\ review[a].target = p
               /\ review[a].op \in {"active", "rejected"} /\ review[a].life = profile[p].life
               /\ profile'[p].status = review[a].op
      BY <1>0, <1>2, <2>6, <2>7, RowBeside
    <3> QED
      BY <3>3, <3>4, <3>5
  <2>8. ASSUME callback.at = "fill", SameRow', profile'[p].email # "none"
        PROVE  p \in overtaken'
    <3>1. profile'[p].email = profile[p].email \/ p \in overtaken'
      BY <1>0, <1>2, <2>6, <2>8, RowBeside
    <3>2. p \in overtaken => p \in overtaken'
      BY <1>0, <1>2, HistoryBeside
    <3> QED
      BY <1>0, <2>1, <2>3, <2>6, <2>8, <3>1, <3>2 DEF SignInReads
  <2> QED
    BY <1>0, <2>1, <2>3, <2>5, <2>7, <2>8 DEF SignInReads
<1> QED
  BY <1>1, <1>2

\* The invariant is inductive: the administrators' rows, the accounts that may
\* enter and the mails agree whatever step is taken.
LEMMA NextIInv == IInv /\ [Next]_vars => IInv'
BY TablesStep, SignInReadsStep DEF IInv

LEMMA Invariance == Spec => []IInv
BY InitIInv, NextIInv, PTL DEF Spec

\* Every variable keeps its type: rows, sessions, sign-ins and reviews under
\* way in the tables and cookies of auth/, admin/ and persistence/.
THEOREM TypeCorrect == Spec => []TypeOK
<1>1. IInv => TypeOK
  <2> SUFFICES ASSUME IInv PROVE TypeOK
    OBVIOUS
  <2>1. callback.at \in {"none", "request", "reopen", "ban", "email", "fill", "seat"}
    BY DEF IInv, Tables, Shape, Callbacks, NoCallback
  <2>2. \A a \in Users : review[a] = NoReview \/ review[a].target \in Users
    BY DEF IInv, Tables, Shape, Reviews, Users
  <2> QED
    BY <2>1, <2>2 DEF IInv, Tables, Shape, TypeOK, Rows
<1> QED
  BY <1>1, Invariance, PTL

\* The administrators cannot remove the last of themselves: none who is one
\* from the start can be banned, deleted or rejected (admin/routes.py).
THEOREM AdminRemains == Spec => []AnAdminRemains
<1>1. IInv => AnAdminRemains
  BY AccountsAssumption
  DEF IInv, Tables, Shape, AdminsStay, AnAdminRemains, IsAdmin, Exists, IsBanned, Row, NotBanned, Users
<1> QED
  BY <1>1, Invariance, PTL

\* Mails on an account and announcements to the administrators tell what the
\* table says, with reviews overlapping and accounts deleted and created anew.
THEOREM MailsTrue == Spec => []MailsAgree
<1>1. IInv => MailsAgree
  BY DEF IInv, Tables, MailsAgree
<1> QED
  BY <1>1, Invariance, PTL

\* No request is served for an account that no administrator let in, that is
\* gone or that is banned, whatever a late response put back into the session.
THEOREM Admission == Spec => ServedOnlyTheAdmitted
<1>1. IInv /\ [Next]_vars =>
        [\A p \in People : request'[p] \notin {NoAccount, request[p]} =>
           /\ request'[p] = profile[p].life /\ approved[p] = request'[p]
           /\ Exists(p) /\ ~IsBanned(p)]_vars
  <2> SUFFICES ASSUME IInv, Next, NEW p \in People,
                      request'[p] \notin {NoAccount, request[p]}
               PROVE  /\ request'[p] = profile[p].life /\ approved[p] = request'[p]
                      /\ Exists(p) /\ ~IsBanned(p)
    BY DEF IInv, Tables
  <2>0. Shape
    BY DEF IInv, Tables
  <2>1. PICK q \in People : BeginRequest(q) \/ EndRequest(q) \/ \E email \in {"none", "own"} : SaveProfile(q, email)
    BY DEF Next, Clock, SignIn, Callback, SignUp, ReadRejected, Reopen, CheckBan, ReadLoginEmail,
           StoreLoginEmail, Seat,
           Bootstrap, Browse, Logout, OpenReview, CloseReview
  <2>2. request' \in {[request EXCEPT ![q] = session[q]], [request EXCEPT ![q] = NoAccount], request}
    BY <2>1 DEF BeginRequest, EndRequest, SaveProfile
  <2>3. p = q /\ request'[p] = session[p] /\ BeginRequest(p) /\ AccessState(p, session[p]) = "ok"
    BY <2>0, <2>1, <2>2 DEF Shape, BeginRequest, EndRequest, SaveProfile
  <2>4. Exists(p) /\ profile[p].life = session[p] /\ ~IsBanned(p)
    BY <2>3 DEF AccessState
  <2>5. approved[p] = session[p]
    <3>1. session[p] <= approved[p] /\ approved[p] <= profile[p].life
      BY DEF IInv, Tables, EntryApproved
    <3>2. session[p] \in Nat /\ approved[p] \in Nat
      BY <2>0 DEF Shape
    <3> QED
      BY <2>4, <3>1, <3>2
  <2> QED
    BY <2>3, <2>4, <2>5
<1> QED
  BY <1>1, Invariance, PTL DEF Spec, ServedOnlyTheAdmitted

\* What a sign-in may do to a row there is already.
LEMMA SignInRow ==
  ASSUME IInv, SignIn, NEW p \in People, Exists(p)
  PROVE  /\ profile[p].status = "active" => profile'[p].status = "active" \/ p \in contested
         /\ profile[p].email = "own" =>
              \/ profile'[p].email = "own"
              \/ callback.who = p /\ callback.at = "fill" /\ p \in overtaken
<1>0. profile \in [Users -> Rows] /\ p \in Users /\ profile[p] \in Rows /\ SignInReads
  BY DEF IInv, Tables, Shape, Users
<1>1. CASE SignUp
  BY <1>0, <1>1 DEF SignUp, Exists
<1>2. CASE Reopen
  <2>1. \/ profile' = profile
        \/ /\ \/ profile[callback.who].status = "rejected"
              \/ callback.who \in contested
           /\ profile' = [profile EXCEPT ![callback.who].status = "pending"]
    BY <1>0, <1>2 DEF Reopen, SignInReads, NoCallback
  <2> QED
    BY <1>0, <2>1 DEF Rows
<1>3. CASE StoreLoginEmail
  <2>1. \/ profile' = profile
        \/ /\ callback.at = "fill"
           /\ profile[callback.who].email = "none" \/ callback.who \in overtaken
           /\ profile' = [profile EXCEPT ![callback.who].email = callback.email]
    BY <1>0, <1>3 DEF StoreLoginEmail, SignInReads, NoCallback
  <2> QED
    BY <1>0, <2>1 DEF Rows
<1>4. CASE \/ Seat \/ ReadRejected \/ CheckBan \/ ReadLoginEmail
           \/ \E q \in People, address \in BOOLEAN : Callback(q, address)
  BY <1>4 DEF Seat, ReadRejected, CheckBan, ReadLoginEmail, Callback
<1> QED
  BY <1>1, <1>2, <1>3, <1>4 DEF SignIn

\* What a review closed may do to a row: only a decision on a request changes
\* the status of an account that stays, and none its address.
LEMMA ReviewRow ==
  ASSUME Shape, NEW a \in Users, CloseReview(a), NEW p \in People, profile'[p] # profile[p]
  PROVE  /\ review[a] # NoReview /\ review[a].target = p /\ review[a].life = profile[p].life
         /\ \/ profile'[p].status = "none"
            \/ /\ profile'[p].email = profile[p].email
               /\ \/ profile'[p].status = profile[p].status
                  \/ review[a].op \in {"active", "rejected"}
<1> DEFINE r == review[a]
           u == r.target
<1>0. profile \in [Users -> Rows] /\ p \in Users /\ profile[p] \in Rows /\ r \in Reviews
  BY DEF Shape, Users, CloseReview
<1>1. /\ profile[u].life = r.life /\ r # NoReview
      /\ \/ r.op \in {"active", "rejected"} /\ profile' = [profile EXCEPT ![u].status = r.op]
         \/ profile' = [profile EXCEPT ![u].banned_until = r.until]
         \/ profile' = [profile EXCEPT ![u].banned_until = NotBanned]
         \/ profile' = [profile EXCEPT ![u] = Row("none", r.life, FALSE, "none")]
  <2>1. r.op \in {"active", "rejected", "ban", "unban", "delete"}
    BY <1>0 DEF Reviews
  <2> QED
    BY <2>1 DEF CloseReview
<1>2. u = p
  BY <1>0, <1>1
<1>3. CASE r.op \in {"active", "rejected"} /\ profile' = [profile EXCEPT ![u].status = r.op]
  BY <1>0, <1>1, <1>2, <1>3 DEF Rows
<1>4. CASE \/ profile' = [profile EXCEPT ![u].banned_until = r.until]
           \/ profile' = [profile EXCEPT ![u].banned_until = NotBanned]
  BY <1>0, <1>1, <1>2, <1>4 DEF Rows
<1>5. CASE profile' = [profile EXCEPT ![u] = Row("none", r.life, FALSE, "none")]
  BY <1>0, <1>1, <1>2, <1>5 DEF Row
<1> QED
  BY <1>1, <1>3, <1>4, <1>5

\* An approval is undone only by a deletion, unless two reviews of the same
\* request overlapped (admin/routes.py reads the row before it writes it).
THEOREM ApprovalsStand == Spec => ApprovalStands
<1>1. IInv /\ [Next]_vars =>
        [\A p \in People \ contested : profile[p].status = "active" =>
           profile'[p].status \in {"active", "none"}]_vars
  <2> SUFFICES ASSUME IInv, Next, NEW p \in People \ contested, profile[p].status = "active",
                      profile'[p] # profile[p]
               PROVE  profile'[p].status \in {"active", "none"}
    BY DEF IInv, Tables
  <2>0. Shape
    BY DEF IInv, Tables
  <2>1. CASE SignIn
    BY <2>0, <2>1, SignInRow DEF Exists
  <2>2. CASE \E q \in Founders : Bootstrap(q)
    BY <2>0, <2>2, AccountsAssumption DEF Bootstrap, Exists, Shape, Users
  <2>3. CASE \E q \in People : Browse(q)
    BY <2>0, <2>3 DEF Browse, BeginRequest, EndRequest, Logout, SaveProfile, Shape, Rows, Users
  <2>4. ASSUME NEW a \in Users, CloseReview(a) PROVE profile'[p].status \in {"active", "none"}
    <3>1. review[a].op \notin {"active", "rejected"}
      BY <2>0, <2>4, ReviewRow DEF IInv, Tables, NoRivalReview
    <3> QED
      BY <2>0, <2>4, <3>1, ReviewRow
  <2>5. CASE Clock \/ \E a, u \in Users : OpenReview(a, u)
    BY <2>5 DEF Clock, OpenReview
  <2> QED
    BY <2>1, <2>2, <2>3, <2>4, <2>5 DEF Next
<1> QED
  BY <1>1, Invariance, PTL DEF Spec, ApprovalStands

\* A sign-in replaces the address a user set only when the user saved it after
\* the sign-in had read the row without one: whatever else it overlaps, be its
\* user pending, rejected or active (auth/routes.py, routes/profile.py).
THEOREM AddressStays == Spec => OwnAddressStays
<1>1. IInv /\ [Next]_vars =>
        [\A p \in People : profile[p].email = "own" /\ Exists(p)' =>
           \/ profile'[p].email = "own"
           \/ request'[p] # request[p]
           \/ callback.who = p /\ callback.at = "fill" /\ p \in overtaken]_vars
  <2> SUFFICES ASSUME IInv, Next, NEW p \in People, profile[p].email = "own", Exists(p)',
                      profile'[p] # profile[p]
               PROVE  \/ profile'[p].email = "own"
                      \/ request'[p] # request[p]
                      \/ callback.who = p /\ callback.at = "fill" /\ p \in overtaken
    BY DEF IInv
  <2>0. Shape /\ NoMailWithoutAddress
    BY DEF IInv, Tables
  <2>1. CASE SignIn
    <3>1. Exists(p)
      BY <2>0 DEF NoMailWithoutAddress, Exists
    <3> QED
      BY <2>1, <3>1, SignInRow
  <2>2. CASE \E q \in Founders : Bootstrap(q)
    BY <2>0, <2>2, AccountsAssumption DEF Bootstrap, Exists, NoMailWithoutAddress, Shape, Users
  <2>3. CASE \E q \in People : Browse(q)
    <3>1. PICK q \in People, email \in {"none", "own"} : SaveProfile(q, email)
      BY <2>3 DEF Browse, BeginRequest, EndRequest, Logout
    <3>2. p = q
      BY <2>0, <3>1 DEF SaveProfile, Shape, Users
    <3> QED
      BY <2>0, <3>1, <3>2 DEF SaveProfile, Shape
  <2>4. ASSUME NEW a \in Users, CloseReview(a) PROVE profile'[p].email = "own"
    BY <2>0, <2>4, ReviewRow DEF Exists
  <2>5. CASE Clock \/ \E a, u \in Users : OpenReview(a, u)
    BY <2>5 DEF Clock, OpenReview
  <2> QED
    BY <2>1, <2>2, <2>3, <2>4, <2>5 DEF Next
<1> QED
  BY <1>1, Invariance, PTL DEF Spec, OwnAddressStays
=============================================================================
