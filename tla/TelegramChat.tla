----------------------------- MODULE TelegramChat ---------------------------
(***************************************************************************)
(* The chats of the operators: the page that mints a token and binds or    *)
(* releases a chat, and the webhook that runs the commands of a chat       *)
(* (notifications/telegram_bind.py, telegram_webhook.py), on the accounts, *)
(* alerts and bookings of GymAccounts.                                     *)
(*                                                                         *)
(* The webhook handler does not await once it has the update, so updates   *)
(* do not overlap.  Telegram delivers an update again until its answer     *)
(* arrives; the tokens are kept in memory.                                 *)
(***************************************************************************)
EXTENDS GymAccounts

CONSTANTS
  Chats,
  Ttl,        \* DEFAULT_TOKEN_TTL
  MaxTokens,  \* bound on the tokens minted
  MaxNow      \* bound on the clock

ASSUME TelegramAssumption ==
  {Ttl, MaxTokens, MaxNow} \subseteq Nat /\ NoOwner \notin Chats /\ IsFiniteSet(Chats)

VARIABLES
  now,
  minted,     \* tokens minted so far, the tokens 1, 2, ...
  store,      \* TelegramBindStore: the tokens in memory, with owner and expiry
  chat,       \* operator_profile.telegram_chat_id, or NoOwner
  alert,      \* table alert: cookie_expiring of each account
  booking,    \* table booking_outcome: a booking of each account
  uses,       \* history: how often each token bound a chat
  acked,      \* history: who acknowledged the alert of each account
  canceller   \* history: who cancelled the booking of each account by chat

chatVars == <<now, minted, store, chat, alert, booking, uses, acked, canceller>>
vars     == <<gymVars, chatVars>>

Tokens == 1..MaxTokens

TypeOK ==
  /\ GymTypeOK
  /\ now \in 0..MaxNow /\ minted \in 0..MaxTokens
  /\ \A e \in store : e.token \in Tokens /\ e.owner \in Operators /\ e.expires <= now + Ttl
  /\ \A d, e \in store : d.token = e.token => d = e
  /\ chat \in [Operators -> Chats \cup {NoOwner}]
  /\ \A o \in Operators : chat[o] # NoOwner => o \in registered
  /\ alert \in [1..MaxAccounts -> {"none", "open", "acknowledged"}]
  /\ booking \in [1..MaxAccounts -> {"granted", "cancelled"}]
  /\ uses \in [Tokens -> Nat] /\ {acked, canceller} \subseteq [1..MaxAccounts -> Operators \cup {NoOwner}]
  /\ \A i \in 1..MaxAccounts \ Accounts : alert[i] = "none"

Init ==
  /\ GymInit
  /\ now = 0 /\ minted = 0 /\ store = {}
  /\ chat = [o \in Operators |-> NoOwner]
  /\ alert = [i \in 1..MaxAccounts |-> "none"]
  /\ booking = [i \in 1..MaxAccounts |-> "granted"]
  /\ uses = [t \in Tokens |-> 0]
  /\ acked = [i \in 1..MaxAccounts |-> NoOwner] /\ canceller = acked

-----------------------------------------------------------------------------
(* The Telegram page. *)

\* _purge_expired_locked.
Unexpired == {e \in store : e.expires > now}

\* TelegramBindStore.issue.
Issued(o, t) == Unexpired \cup {[token |-> t, owner |-> o, expires |-> now + Ttl]}

\* telegram_generate_link.
Generate(o) ==
  /\ o \in registered /\ minted < MaxTokens
  /\ minted' = minted + 1
  /\ store' = Issued(o, minted + 1)
  /\ UNCHANGED <<gymVars, now, chat, alert, booking, uses, acked, canceller>>

\* telegram_unbind.
Unbind(o) ==
  /\ chat[o] # NoOwner
  /\ chat' = [chat EXCEPT ![o] = NoOwner]
  /\ UNCHANGED <<gymVars, now, minted, store, alert, booking, uses, acked, canceller>>

-----------------------------------------------------------------------------
(* The commands. *)

Bound(c) == {o \in Operators : chat[o] = c}

\* Mutant of Consumed: the token stays until it expires.
ConsumedKept(t) == Unexpired

\* TelegramBindStore.consume: the store without the token, used or not.
Consumed(t) == {e \in Unexpired : e.token # t}

\* _handle_start.
Start(c, t) ==
  /\ store' = Consumed(t)
  /\ IF \E e \in Unexpired : e.token = t /\ e.owner \in registered
     THEN LET o == (CHOOSE e \in Unexpired : e.token = t).owner IN
          /\ chat' = [chat EXCEPT ![o] = c]
          /\ uses' = [uses EXCEPT ![t] = @ + 1]
     ELSE UNCHANGED <<chat, uses>>
  /\ UNCHANGED <<gymVars, now, minted, alert, booking, acked, canceller>>

\* Mutant of Cancellable: a booking is looked up by its identifier alone.
CancellableByAnyone(o, i) == i \in Accounts

\* resolve_owner_gym_account.
Cancellable(o, i) == i \in Owned(o)

\* _handle_cancel, where cancel_booking finds the booking and the gym agrees.
Cancel(o, i) ==
  /\ IF Cancellable(o, i) /\ booking[i] = "granted"
     THEN /\ booking' \in {booking, [booking EXCEPT ![i] = "cancelled"]}
          /\ canceller' = IF booking' # booking THEN [canceller EXCEPT ![i] = o] ELSE canceller
     ELSE UNCHANGED <<booking, canceller>>
  /\ UNCHANGED <<gymVars, now, minted, store, chat, alert, uses, acked>>

\* acknowledge_open_cookie_expiring of account i, for operator o.
Acknowledge(i, o) ==
  IF i \in 1..MaxAccounts /\ alert[i] # "none"
  THEN /\ alert' = [alert EXCEPT ![i] = "acknowledged"]
       /\ acked' = [acked EXCEPT ![i] = o]
  ELSE UNCHANGED <<alert, acked>>

\* _handle_ack: the operator's identifier is passed for a gym account's.
Ack(o) ==
  /\ Acknowledge(o, o)
  /\ UNCHANGED <<gymVars, now, minted, store, chat, booking, uses, canceller>>

\* /help, /status, /next, /last and the answer to an unbound chat only read.
Answer == UNCHANGED vars

\* _handle_command: the operator of the chat is looked up first, which raises
\* when two operators share it.
Handle(u) ==
  LET bound == Bound(u.chat) IN
  CASE Cardinality(bound) > 1 -> Answer
    [] u.cmd = "start" /\ Cardinality(bound) <= 1  -> Start(u.chat, u.arg)
    [] u.cmd = "cancel" /\ Cardinality(bound) = 1 -> \E o \in bound : Cancel(o, u.arg)
    [] u.cmd = "ack" /\ Cardinality(bound) = 1    -> \E o \in bound : Ack(o)
    [] OTHER -> Answer

\* An update may be delivered at any time and again, while its answer is lost:
\* a repetition is not told apart from a command sent anew.
Commands ==
  \E c \in Chats :
    \/ \E t \in 1..minted : Handle([chat |-> c, cmd |-> "start", arg |-> t])
    \/ \E i \in Accounts : Handle([chat |-> c, cmd |-> "cancel", arg |-> i])
    \/ Handle([chat |-> c, cmd |-> "ack", arg |-> NoOwner])

-----------------------------------------------------------------------------
(* The rest of the worker. *)

\* A tick opens an alert (apply_alert_action), one at a time.
Alarm(i) ==
  /\ i \in Accounts /\ \A j \in Accounts : alert[j] = "none"
  /\ alert' = [alert EXCEPT ![i] = "open"]
  /\ UNCHANGED <<gymVars, now, minted, store, chat, booking, uses, acked, canceller>>

\* What goes with an account; a stored cookie closes the alert.
Sweep(closed) ==
  /\ alert' = [i \in 1..MaxAccounts |-> IF i \in closed THEN "none" ELSE alert[i]]
  /\ acked' = [i \in 1..MaxAccounts |-> IF i \in closed THEN NoOwner ELSE acked[i]]

PasteAndClose(o, cookie) ==
  /\ Paste(o, cookie)
  /\ Sweep(Owned(o))
  /\ UNCHANGED <<now, minted, store, chat, booking, uses, canceller>>

Deletion(o) ==
  /\ DeleteOperator(o) /\ Sweep(Owned(o))
  /\ UNCHANGED booking
  /\ canceller' = [i \in 1..MaxAccounts |-> IF i \in Owned(o) THEN NoOwner ELSE canceller[i]]
  /\ chat' = [chat EXCEPT ![o] = NoOwner]
  /\ UNCHANGED <<now, minted, store, uses>>

\* A restart forgets the tokens, and may bring another key.
Restart ==
  /\ store' = {} /\ (RotateKey \/ UNCHANGED gymVars)
  /\ UNCHANGED <<now, minted, chat, alert, booking, uses, acked, canceller>>

Clock == /\ now < MaxNow /\ now' = now + 1
         /\ UNCHANGED <<gymVars, minted, store, chat, alert, booking, uses, acked, canceller>>

Site(o) == \/ \E cookie \in Cookies : PasteAndClose(o, cookie)
           \/ Refresh(o) /\ UNCHANGED chatVars
           \/ Generate(o) \/ Unbind(o) \/ Deletion(o)

Next == \/ \E o \in registered : Site(o)
        \/ Commands \/ Restart \/ Clock
        \/ \E i \in 1..MaxAccounts : Alarm(i)

Spec == Init /\ [][Next]_vars

-----------------------------------------------------------------------------
(* Properties. *)

\* The accounts of an operator are one per gym and renewed together, so that
\* they hold one cookie, readable everywhere or nowhere.
GymsTogether == TypeOK /\ OneAccountPerGym /\ RenewedEverywhere /\ ReadableTogether

\* A token binds a chat at most once, be the update delivered again, the chat
\* released meanwhile or the worker restarted; one that may still be used was not.
TokenBindsOnce ==
  /\ \A t \in Tokens : uses[t] <= 1
  /\ \A e \in store : uses[e.token] = 0

\* A chat cancels bookings of the operator it is bound to, in any of his gyms,
\* and of nobody else.
CancelReachesOwn ==
  \A i \in Accounts : canceller[i] # NoOwner => account[i].owner = canceller[i]

\* A chat acknowledges the alert of an account of its operator.
AckReachesOwn ==
  \A i \in Accounts : acked[i] # NoOwner => account[i].owner = acked[i]

=============================================================================
