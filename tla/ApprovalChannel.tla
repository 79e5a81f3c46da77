---------------------------- MODULE ApprovalChannel ----------------------------
(***************************************************************************)
(* How approvers reach the approval store: the Telegram notifier and       *)
(* poller (proxy/internal/approval telegram.go, poller.go, callback.go)    *)
(* and the mobile approval handler.  A sign request starts a goroutine     *)
(* that sends one message with buttons; each tap becomes an update that    *)
(* the bot API keeps until a getUpdates call with a larger offset confirms *)
(* it; the poller applies the taps to the store and edits the message.     *)
(*                                                                         *)
(* The store is the one of ApprovalDecision: the first decision of a known *)
(* open request counts, later ones are ignored.  The proxy may crash; the  *)
(* store, the sent marks and the poller's offset are lost with it.  Calls  *)
(* of the bot API may fail before or after they took effect.               *)
(***************************************************************************)
EXTENDS Integers, Sequences, FiniteSets

CONSTANTS
    Tx,
    User,            \* Telegram users, by their id
    ConfiguredChat,  \* telegram_chat_id: a user's private chat, or a group (< 0)
    AllowedUsers,    \* telegram_allowed_user_ids
    AllowedTTL,      \* AllowedTTLSeconds
    MaxTaps,         \* bound: taps on buttons
    MaxCrashes       \* bound: restarts of the proxy

ASSUME ChannelAssumption == ConfiguredChat \in Int /\ MaxTaps \in Nat

Telegram == "telegram"
Mobile == "mobile"

VARIABLES
    decision,  \* of each request: "none", "open", "granted", "refused"
    known,     \* requests in the memory of the running proxy
    by,        \* who granted a request: nobody yet, Telegram or Mobile
    notify,    \* the notifier's goroutine of each request
    sent,      \* Notifier.sent
    message,   \* the message of each request in the chat
    taps,      \* history: every tap, update n being taps[n]
    confirmed, \* the bot API no longer delivers updates up to this one
    webhook,   \* whether the bot API delivers to a webhook instead
    running,   \* whether Poller.Run has passed its start
    offset,    \* Poller.offset
    batch,     \* updates of the last answer still to be handled
    editing,   \* update whose message is being edited, or 0
    times,     \* how often this process handled each update
    handled,   \* history: updates handled by any process
    crashes

pollVars == <<running, offset, batch, editing, times, handled>>
botVars == <<message, taps, confirmed, webhook>>
storeVars == <<decision, known, by>>
channelVars == <<storeVars, notify, sent, botVars, pollVars, crashes>>

ChannelInit ==
    /\ decision = [t \in Tx |-> "none"]
    /\ known = {}
    /\ by = [t \in Tx |-> "none"]
    /\ notify = [t \in Tx |-> "none"]
    /\ sent = {}
    /\ message = [t \in Tx |-> "none"]
    /\ taps = <<>> /\ confirmed = 0 /\ webhook \in BOOLEAN
    /\ running = FALSE /\ offset = 0 /\ batch = <<>> /\ editing = 0
    /\ times = [n \in 1..MaxTaps |-> 0]
    /\ handled = {}
    /\ crashes = 0

-------------------------------------------------------------------------------
(***************************************************************************)
(* The store, as its users see it                                          *)
(***************************************************************************)

\* Mutated form of Decide: a later decision replaces an earlier one.
DecideAgain(t, d, who) ==
    IF t \in known
    THEN /\ decision' = [decision EXCEPT ![t] = d]
         /\ by' = IF d = "granted" THEN [by EXCEPT ![t] = who] ELSE by
         /\ UNCHANGED known
    ELSE UNCHANGED storeVars

\* Approve and Deny: the first decision of a known open request counts.
Decide(t, d, who) ==
    IF t \in known /\ decision[t] = "open"
    THEN /\ decision' = [decision EXCEPT ![t] = d]
         /\ by' = IF d = "granted" THEN [by EXCEPT ![t] = who] ELSE by
         /\ UNCHANGED known
    ELSE UNCHANGED storeVars

\* handleSign: CreateBound, then a goroutine for the notification.
Sign(t) ==
    /\ decision[t] = "none"
    /\ decision' = [decision EXCEPT ![t] = "open"]
    /\ known' = known \cup {t}
    /\ notify' = [notify EXCEPT ![t] = "started"]
    /\ UNCHANGED <<by, sent, botVars, pollVars, crashes>>

Timeout(t) ==
    /\ t \in known /\ decision[t] = "open"
    /\ Decide(t, "refused", "none")
    /\ UNCHANGED <<notify, sent, botVars, pollVars, crashes>>

\* handleMobileApprove, once the device and its signature are accepted: the
\* answer is 200 whatever Approve did.
MobileApprove(t) ==
    /\ decision[t] # "none"
    /\ Decide(t, "granted", Mobile)
    /\ UNCHANGED <<notify, sent, botVars, pollVars, crashes>>

-------------------------------------------------------------------------------
(***************************************************************************)
(* Notifier                                                                *)
(***************************************************************************)

\* Notify marks the request under its lock ...
NotifyMark(t) ==
    /\ notify[t] = "started"
    /\ notify' = [notify EXCEPT ![t] = IF t \in sent THEN "done" ELSE "sending"]
    /\ sent' = sent \cup {t}
    /\ UNCHANGED <<storeVars, botVars, pollVars, crashes>>

\* ... and calls sendMessage, forgetting the mark when the call fails, which
\* it also does when only the answer is lost.
NotifySend(t) ==
    /\ notify[t] = "sending"
    /\ notify' = [notify EXCEPT ![t] = "done"]
    /\ \E delivered, answered \in BOOLEAN :
         /\ answered => delivered
         /\ message' = IF delivered THEN [message EXCEPT ![t] = "buttons"] ELSE message
         /\ sent' = IF answered THEN sent ELSE sent \ {t}
    /\ UNCHANGED <<storeVars, taps, confirmed, webhook, pollVars, crashes>>

-------------------------------------------------------------------------------
(***************************************************************************)
(* Buttons and their callbacks                                             *)
(***************************************************************************)

approvalKeyboard(t) ==
    {[action |-> "approve", tx |-> t, ttl |-> sec] : sec \in AllowedTTL}
        \cup {[action |-> "deny", tx |-> t, ttl |-> 0]}

TTLAllowed(sec) == sec \in AllowedTTL

\* The button data is parsed back; an approval needs an allowed TTL.
ParseCallbackData(data) ==
    \/ data.action = "deny"
    \/ data.action = "approve" /\ TTLAllowed(data.ttl)

\* A callback without its message has chat 0.
ChatAllowed(chat) == ConfiguredChat # 0 /\ chat = ConfiguredChat

\* Mutated form of TelegramUserAllowed: a member of the chat is enough.
AnyUserAllowed(user) == TRUE

\* The allow list, or the owner of the configured private chat.
TelegramUserAllowed(user) ==
    \/ user \in AllowedUsers
    \/ ConfiguredChat > 0 /\ user = ConfiguredChat

\* A member of the chat taps a button; the message may be missing from the
\* callback.  The bot API numbers the update and keeps it.
Tap(t, user, data, chat) ==
    /\ message[t] = "buttons"
    /\ Len(taps) < MaxTaps
    /\ taps' = Append(taps, [user |-> user, data |-> data, chat |-> chat])
    /\ UNCHANGED <<storeVars, notify, sent, message, confirmed, webhook, pollVars, crashes>>

-------------------------------------------------------------------------------
(***************************************************************************)
(* Poller                                                                  *)
(***************************************************************************)

\* Poller.Run starts by asking the bot API, once, to drop its webhook, and
\* polls all the same when the call fails.
StartPoller ==
    /\ ~running
    /\ running' = TRUE
    /\ webhook' \in {webhook, FALSE}
    /\ UNCHANGED <<storeVars, notify, sent, message, taps, confirmed, offset, batch,
                   editing, times, handled, crashes>>

\* getUpdates confirms what is below the offset and returns the rest; offset 0
\* is not sent and confirms nothing.
Poll(answered) ==
    /\ running /\ batch = <<>> /\ editing = 0 /\ ~webhook
    /\ LET kept == IF offset > confirmed + 1 THEN offset - 1 ELSE confirmed
       IN  /\ confirmed' = kept
           /\ kept < Len(taps)
           /\ batch' = IF answered
                       THEN [i \in 1..(Len(taps) - kept) |-> kept + i] ELSE <<>>
    /\ UNCHANGED <<storeVars, notify, sent, message, taps, webhook, running, offset,
                   editing, times, handled, crashes>>

\* Mutated form of NextOffset: the update just handled stays unconfirmed.
NextOffsetSame(n) == IF n >= offset THEN n ELSE offset

\* Mutated form of NextOffset: one update is skipped.
NextOffsetSkip(n) == IF n >= offset THEN n + 2 ELSE offset

NextOffset(n) == IF n >= offset THEN n + 1 ELSE offset

\* pollOnce takes the next update: the offset moves past it and handleUpdate
\* decides the request if the callback is well formed and its sender allowed.
HandleUpdate ==
    /\ batch # <<>> /\ editing = 0
    /\ LET n == Head(batch)
           u == taps[n]
           ok == ParseCallbackData(u.data) /\ ChatAllowed(u.chat) /\ TelegramUserAllowed(u.user)
       IN  /\ offset' = NextOffset(n)
           /\ batch' = Tail(batch)
           /\ times' = [times EXCEPT ![n] = @ + 1]
           /\ handled' = handled \cup {n}
           /\ IF ok
              THEN /\ Decide(u.data.tx,
                             IF u.data.action = "approve" THEN "granted" ELSE "refused",
                             Telegram)
                   /\ editing' = n
              ELSE UNCHANGED <<storeVars, editing>>
    /\ UNCHANGED <<notify, sent, botVars, running, crashes>>

\* editResolvedMessage shows the tapped decision, without looking at what the
\* store made of it; the call may fail.
EditResolvedMessage ==
    /\ editing # 0
    /\ editing' = 0
    /\ LET data == taps[editing].data
       IN  \/ message' = [message EXCEPT ![data.tx] = IF data.action = "approve"
                                                     THEN "APPROVED" ELSE "DENIED"]
           \/ UNCHANGED message
    /\ UNCHANGED <<storeVars, notify, sent, taps, confirmed, webhook, running, offset,
                   batch, times, handled, crashes>>

\* The proxy stops and starts again: requests, marks and offset are gone.
Crash ==
    /\ crashes < MaxCrashes
    /\ crashes' = crashes + 1
    /\ known' = {} /\ sent' = {}
    /\ notify' = [t \in Tx |-> IF notify[t] = "none" THEN "none" ELSE "done"]
    /\ running' = FALSE /\ offset' = 0 /\ batch' = <<>> /\ editing' = 0
    /\ times' = [n \in 1..MaxTaps |-> 0]
    /\ UNCHANGED <<decision, by, botVars, handled>>

ChannelNext ==
    \/ \E t \in Tx : Sign(t) \/ Timeout(t) \/ MobileApprove(t) \/ NotifyMark(t) \/ NotifySend(t)
    \/ \E t \in Tx, user \in User, chat \in {ConfiguredChat, 0} :
         \E data \in approvalKeyboard(t) : Tap(t, user, data, chat)
    \/ StartPoller \/ (\E answered \in BOOLEAN : Poll(answered))
    \/ HandleUpdate \/ EditResolvedMessage \/ Crash

ChannelSpec == ChannelInit /\ [][ChannelNext]_channelVars

\* Run polls again after every error, and handles a batch to its end; a bot
\* API that can be reached answers in the end.
ChannelFairSpec ==
    /\ ChannelSpec
    /\ WF_channelVars(StartPoller) /\ SF_channelVars(Poll(TRUE))
    /\ WF_channelVars(HandleUpdate) /\ WF_channelVars(EditResolvedMessage)

-------------------------------------------------------------------------------
(***************************************************************************)
(* Properties                                                              *)
(***************************************************************************)

\* No process handles an update twice, although the bot API delivers it until
\* a later call confirms it (pollOnce's offset).
HandledOnce == \A n \in 1..MaxTaps : times[n] <= 1

\* A request granted through Telegram was approved by an allowed user's tap on
\* the button of that very request (handleUpdate).
GrantHasTap ==
    \A t \in Tx : by[t] = Telegram =>
        \E n \in 1..Len(taps) :
            /\ taps[n].data.tx = t /\ taps[n].data.action = "approve"
            /\ taps[n].user \in AllowedUsers \cup {ConfiguredChat}

\* Every tap is handled in the end once no webhook is in the way, lost answers
\* and crashes between the new offset and the decision included (pollOnce moves
\* the offset first, but confirms it only with the next call).
TapHandled ==
    \A n \in 1..MaxTaps : (n <= Len(taps) /\ ~webhook) ~> (n \in handled)

\* A request and its decision, for ApprovalDecision; nobody waits here.
DecisionOf(t) ==
    IF decision[t] = "none"
    THEN [phase |-> "none", key |-> "nokey", reusable |-> FALSE,
          grantor |-> "none", until |-> 0]
    ELSE [phase |-> decision[t], key |-> "k", reusable |-> TRUE,
          grantor |-> by[t], until |-> 0]
Decided == [t \in Tx |-> DecisionOf(t)]
NoneTold == [c \in {} |-> "none"]

Decisions == INSTANCE ApprovalDecision WITH
    Client <- {}, Key <- {"k"}, Human <- {Telegram, Mobile}, Nobody <- "none",
    AutoGrant <- FALSE, NoKey <- "nokey", NoTx <- "notx",
    dec <- Decided, told <- NoneTold

\* What approvers do to the store are steps of ApprovalDecision: a request is
\* decided at most once, whichever of taps, devices and timer comes first.
DecidedOnce == Decisions!Spec
===============================================================================
