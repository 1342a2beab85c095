---------------------------- MODULE Notifications ----------------------------
(***************************************************************************)
(* Notifications on their way out of the hub: Service.Dispatch and         *)
(* DispatchEscalation (internal/hub/notify/service.go), the scheduled      *)
(* report's send (internal/hub/report/send.go), the web push notifier with *)
(* its sender (internal/hub/notify/channels/webpush.go, internal/hub/push) *)
(* and the VAPID key pair kept in settings and hub_secrets.                *)
(* Two goroutines: the one that dispatches, and an HTTP request of         *)
(* push_routes.go.  The n-th generated key pair is n; 0 is none.           *)
(***************************************************************************)
EXTENDS Naturals, FiniteSets

CONSTANTS
    Channel,        \* notification channels
    PushChannel,    \* the ones of type webpush
    Email,          \* the ones of type email
    Unregistered,   \* the ones whose type has no notifier
    Subscription,   \* browsers
    MaxPairs,       \* bound: key pairs generated
    MaxDispatches,  \* bound: dispatches
    MaxRequests,    \* bound: requests of browsers
    NotifyRegimes   \* disturbances, each at most once: a "read" or "save" of a key that
                    \* fails, a "crash" of the hub, an "admin" who edits a channel

VARIABLES
    channelState,        \* channelState[c]: "enabled", "disabled" or "deleted"
    job,            \* the dispatching goroutine
    request,        \* the HTTP request
    keyLock,        \* who holds vapidMu
    public, private,    \* vapid_public_key and vapid_private_key
    pairs,          \* pairs generated so far
    subscribed,     \* subscribed[s]: the public key the browser subscribed with, 0 if it is not
    troubles,       \* the disturbances that happened
    notifyMay       \* the ones that may: chosen once

keyVars == <<keyLock, public, private, pairs>>
troubleVars == <<troubles, notifyMay>>
notifyVars == <<channelState, job, request, keyVars, subscribed, troubleVars>>

Caller == {"job", "request"}

ASSUME NotifyAssumption ==
    /\ PushChannel \union Email \union Unregistered \subseteq Channel
    /\ MaxPairs \in Nat /\ MaxDispatches \in Nat /\ MaxRequests \in Nat

\* key: where EnsureVAPIDKeys stands; pair: what it returns.
Idle(n) == [pc |-> "idle", n |-> n, kind |-> "", todo |-> {}, at |-> {}, subs |-> {},
            key |-> "none", pair |-> 0, late |-> FALSE, tried |-> {}, steady |-> {}]

NotifyInit(regimes) ==
    /\ channelState \in [Channel -> {"enabled", "disabled"}]
    /\ job = Idle(0) /\ request = Idle(0)
    /\ keyLock = "" /\ public = 0 /\ private = 0 /\ pairs = 0
    /\ subscribed = [s \in Subscription |-> 0]
    /\ troubles = {} /\ notifyMay \in regimes

Trouble(t) == t \in notifyMay \ troubles /\ troubles' = troubles \union {t} /\ UNCHANGED notifyMay

-----------------------------------------------------------------------------
(* EnsureVAPIDKeys, for the goroutine g whose state is v.                  *)

Lock(g, v, v2) ==
    /\ v.key = "lock" /\ keyLock = "" /\ keyLock' = g
    /\ v2 = [v EXCEPT !.key = "read"]
    /\ UNCHANGED <<public, private, pairs, troubleVars>>

Unlocked == keyLock' = ""

\* Both keys are there, or a new pair is made.  hubsecrets.Get and SettingString
\* turn any error into "not there".
ReadKeys(v, v2) ==
    /\ v.key = "read"
    /\ \/ /\ public # 0 /\ private # 0
          /\ v2 = [v EXCEPT !.key = "have", !.pair = private] /\ Unlocked
          /\ UNCHANGED <<pairs, troubleVars>>
       \/ /\ \/ public = 0 /\ UNCHANGED troubleVars
             \/ private = 0 /\ UNCHANGED troubleVars
             \/ Trouble("read")
          /\ pairs < MaxPairs /\ pairs' = pairs + 1
          /\ v2 = [v EXCEPT !.key = "private", !.pair = pairs + 1]
          /\ UNCHANGED keyLock
    /\ UNCHANGED <<public, private>>

\* Mutant: the public key is saved first.
MutantStorePrivate(v, v2) ==
    /\ v.key = "private"
    /\ \/ public' = v.pair /\ v2 = [v EXCEPT !.key = "public"] /\ UNCHANGED <<keyLock, troubleVars>>
       \/ Trouble("save") /\ v2 = [v EXCEPT !.key = "failed"] /\ Unlocked /\ UNCHANGED public
    /\ UNCHANGED <<private, pairs>>

StorePrivate(v, v2) ==
    /\ v.key = "private"
    /\ \/ private' = v.pair /\ v2 = [v EXCEPT !.key = "public"] /\ UNCHANGED <<keyLock, troubleVars>>
       \/ Trouble("save") /\ v2 = [v EXCEPT !.key = "failed"] /\ Unlocked /\ UNCHANGED private
    /\ UNCHANGED <<public, pairs>>

StorePublic(v, v2) ==
    /\ v.key = "public"
    /\ \/ public' = v.pair /\ v2 = [v EXCEPT !.key = "have"] /\ UNCHANGED troubleVars
       \/ Trouble("save") /\ v2 = [v EXCEPT !.key = "failed"] /\ UNCHANGED public
    /\ Unlocked /\ UNCHANGED <<private, pairs>>

EnsureVAPIDKeys(g, v, v2) ==
    Lock(g, v, v2) \/ ReadKeys(v, v2) \/ StorePrivate(v, v2) \/ StorePublic(v, v2)

\* SendToSubscription for a subscription s of the goroutine's: the push service
\* takes the message if it is signed for the key the browser subscribed with; a
\* subscription it does not know any more is deleted; anything else is an error,
\* as is every send after the context's deadline.
SendToSubscription(v, v2, s) ==
    /\ s \in v.subs /\ v.key \in {"have", "failed"}
    /\ v2 = [v EXCEPT !.subs = @ \ {s}, !.key = IF v.subs = {s} THEN "none" ELSE "lock"]
    /\ \/ UNCHANGED subscribed
       \/ v.key = "have" /\ ~v.late /\ subscribed' = [subscribed EXCEPT ![s] = 0]

-----------------------------------------------------------------------------
(* The dispatching goroutine.                                              *)

\* Dispatch, DispatchEscalation and the report's send, for a list of channels.
Dispatch ==
    /\ job.pc = "idle" /\ job.n < MaxDispatches
    /\ \E kind \in {"alert", "report"} :
         job' = [Idle(job.n + 1) EXCEPT !.pc = "next", !.kind = kind, !.todo = Channel,
                   !.steady = {c \in Channel : channelState[c] = "enabled"}]
    /\ UNCHANGED <<channelState, request, keyVars, subscribed, troubleVars>>

\* A channel that is gone, disabled or of no use here is passed over.
Usable(c) ==
    /\ channelState[c] = "enabled"
    /\ IF job.kind = "report" THEN c \in Email ELSE c \notin Unregistered

\* dispatchToChannels turns to a channel of the list and gives it 15 seconds.
NextChannel ==
    /\ job.pc = "next"
    /\ \E c \in job.todo :
         IF ~Usable(c)
         THEN job' = [job EXCEPT !.todo = @ \ {c}]
         ELSE LET subs == {s \in Subscription : subscribed[s] # 0} IN
              job' = [job EXCEPT !.todo = @ \ {c}, !.at = {c}, !.late = FALSE,
                        !.pc = IF c \in PushChannel /\ subs # {} THEN "push" ELSE "send",
                        !.subs = IF c \in PushChannel THEN subs ELSE {},
                        !.key = IF c \in PushChannel /\ subs # {} THEN "lock" ELSE "none"]
    /\ UNCHANGED <<channelState, request, keyVars, subscribed, troubleVars>>

\* Mutant: a channel that fails ends the dispatch.
MutantAfterSend(ok) == IF ok THEN job.todo ELSE {}

\* Whether it worked or not, the other channels follow.
AfterSend(ok) == job.todo

\* The notifier returns: sent, refused, misconfigured or out of time.
SendReturns ==
    /\ \/ job.pc = "send"
       \/ job.pc = "push" /\ job.subs = {}
    /\ \E ok \in BOOLEAN :
         job' = [job EXCEPT !.pc = "next", !.at = {}, !.tried = @ \union job.at, !.todo = AfterSend(ok)]
    /\ UNCHANGED <<channelState, request, keyVars, subscribed, troubleVars>>

\* One of the subscriptions: its keys, then the message.
PushStep ==
    /\ job.pc = "push"
    /\ \/ EnsureVAPIDKeys("job", job, job') /\ UNCHANGED subscribed
       \/ (\E s \in Subscription : SendToSubscription(job, job', s)) /\ UNCHANGED <<keyVars, troubleVars>>
    /\ UNCHANGED <<channelState, request>>

\* A push service that does not answer uses up what is left of the 15 seconds.
PushHangs ==
    /\ job.pc = "push" /\ job.key = "have" /\ ~job.late
    /\ job' = [job EXCEPT !.late = TRUE]
    /\ UNCHANGED <<channelState, request, keyVars, subscribed, troubleVars>>

DispatchReturns ==
    /\ job.pc = "next" /\ job.todo = {}
    /\ job' = Idle(job.n)
    /\ UNCHANGED <<channelState, request, keyVars, subscribed, troubleVars>>

-----------------------------------------------------------------------------
(* Requests.                                                               *)

\* A browser asks for the public key, or a user for a test message.
RequestStarts ==
    /\ request.pc = "idle" /\ request.n < MaxRequests
    /\ \/ request' = [Idle(request.n + 1) EXCEPT !.pc = "key", !.key = "lock"]
       \/ \E s \in Subscription :
            /\ subscribed[s] # 0
            /\ request' = [Idle(request.n + 1) EXCEPT !.pc = "test", !.key = "lock", !.subs = {s}]
    /\ UNCHANGED <<channelState, job, keyVars, subscribed, troubleVars>>

\* handleSendTestPush: the subscriptions of the user, one after the other.
RequestStep ==
    /\ request.pc # "idle"
    /\ \/ EnsureVAPIDKeys("request", request, request') /\ UNCHANGED subscribed
       \/ (\E s \in Subscription : SendToSubscription(request, request', s)) /\ UNCHANGED <<keyVars, troubleVars>>
    /\ UNCHANGED <<channelState, job>>

\* handleVAPIDPublicKey answers and the browser subscribes with the key, or with
\* nothing; a test answers with the results.
RequestReturns ==
    /\ \/ /\ request.pc = "key" /\ request.key = "have"
          /\ \E s \in Subscription : subscribed' = [subscribed EXCEPT ![s] = request.pair]
       \/ request.pc = "key" /\ request.key = "failed" /\ UNCHANGED subscribed
       \/ request.pc = "test" /\ request.subs = {} /\ UNCHANGED subscribed
    /\ request' = Idle(request.n)
    /\ UNCHANGED <<channelState, job, keyVars, troubleVars>>

EditChannel ==
    /\ Trouble("admin")
    /\ \E c \in Channel, how \in {"enabled", "disabled", "deleted"} :
         /\ channelState[c] \notin {"deleted", how}
         /\ channelState' = [channelState EXCEPT ![c] = how]
         /\ job' = [job EXCEPT !.steady = @ \ {c}]
    /\ UNCHANGED <<request, keyVars, subscribed>>

\* The hub ends; what is in the database stays.
NotifyCrash ==
    /\ Trouble("crash") /\ (job.pc # "idle" \/ request.pc # "idle")
    /\ job' = Idle(job.n) /\ request' = Idle(request.n) /\ keyLock' = ""
    /\ UNCHANGED <<channelState, public, private, pairs, subscribed>>

JobStep == NextChannel \/ SendReturns \/ PushStep \/ PushHangs \/ DispatchReturns
RequestGoesOn == RequestStep \/ RequestReturns

NotifyNext == Dispatch \/ JobStep \/ RequestStarts \/ RequestGoesOn \/ EditChannel \/ NotifyCrash

NotifySpec == NotifyInit(NotifyRegimes) /\ [][NotifyNext]_notifyVars

-----------------------------------------------------------------------------
\* One failing channel costs the others nothing: a dispatch that comes to its end
\* has tried every channel that was enabled all the time and usable for its kind,
\* whatever failed, hung or was edited meanwhile (dispatchToChannels' continue).
EveryChannelTried ==
    [][job.pc = "next" /\ job'.pc = "idle" /\ troubles' = troubles =>
         \A c \in job.steady :
            (IF job.kind = "report" THEN c \in Email ELSE c \notin Unregistered) => c \in job.tried]_notifyVars

\* The stored pair belongs together, and every browser subscribed with the public
\* key whose private key signs, through concurrent requests, failing saves and a
\* crash between the two (EnsureVAPIDKeys saves the private key first); a read that
\* fails is the exception: it counts as a missing key and replaces the pair.
KeysAgree ==
    "read" \notin troubles =>
        /\ public # 0 => private = public
        /\ \A s \in Subscription : subscribed[s] # 0 => subscribed[s] = private
=============================================================================
