------------------------------ MODULE Delivery ------------------------------
(***************************************************************************)
(* How an event of a worker reaches a client: the worker publishes it on   *)
(* Redis in a task of its own (redis_worker_handler.py), the listener of   *)
(* an RPC process reads it (redis_subscriber.py) and hands it to the       *)
(* in-process channels (broadcast.py), and one task per subscription       *)
(* forwards it to the web socket (websocket.py). One RPC process, one      *)
(* client.                                                                 *)
(***************************************************************************)
EXTENDS Integers, Sequences

CONSTANTS
    Channels,   \* the channels clients subscribe to: a transaction each
    Events      \* bound: the events sent, the numbers from 1

VARIABLES
    sent,       \* the channel each event was sent to, in the order of sending
    wire,       \* events whose task has not published them yet
    link,       \* the listener of the RPC process and what Redis has passed to it
    queue,      \* the queue each subscription has registered
    forwarder,  \* the task of each subscription, with the event it is sending
    client,     \* the connection, the room its handler is about to confirm, the rooms confirmed
    got,        \* the events the client received
    due         \* (ghost) events the client is owed: sent while it was subscribed, nothing failed

vars == <<sent, wire, link, queue, forwarder, client, got, due>>

NoEvent == 0
Closed == <<NoEvent>>       \* of a queue that is not registered

Init ==
    /\ sent = <<>> /\ wire = {} /\ link = [up |-> TRUE, in |-> <<>>]
    /\ queue = [c \in Channels |-> Closed]
    /\ forwarder = [c \in Channels |-> [at |-> "none", event |-> NoEvent]]
    /\ client = [open |-> TRUE, telling |-> {}, rooms |-> {}]
    /\ got = {} /\ due = {}

-----------------------------------------------------------------------------
(* The worker.                                                             *)

(* send_message starts a task and returns.                                 *)
Send(c) ==
    /\ Len(sent) < Events
    /\ sent' = Append(sent, c)
    /\ wire' = wire \cup {Len(sent) + 1}
    /\ due' = IF c \in client.rooms /\ link.up THEN due \cup {Len(sent) + 1} ELSE due
    /\ UNCHANGED <<link, queue, forwarder, client, got>>

(* The tasks use connections of their own: any of them may be first. What  *)
(* is published while nobody listens, or fails, is gone.                   *)
Publish(e, fails) ==
    /\ e \in wire /\ wire' = wire \ {e}
    /\ IF fails \/ ~link.up
       THEN due' = due \ {e} /\ UNCHANGED link
       ELSE link' = [link EXCEPT !.in = Append(@, e)] /\ UNCHANGED due
    /\ UNCHANGED <<sent, queue, forwarder, client, got>>

-----------------------------------------------------------------------------
(* The listener: one message after the other, to every queue of the        *)
(* channel.                                                                *)

Listen ==
    /\ link.up /\ link.in # <<>>
    /\ LET e == Head(link.in)
           c == sent[e]
       IN  queue' = IF queue[c] = Closed THEN queue ELSE [queue EXCEPT ![c] = Append(@, e)]
    /\ link' = [link EXCEPT !.in = Tail(@)]
    /\ UNCHANGED <<sent, wire, forwarder, client, got, due>>

(* The connection breaks; after a pause the listener starts again.         *)
Break ==
    /\ link.up /\ link' = [up |-> FALSE, in |-> <<>>]
    /\ due' = due \ (wire \cup {link.in[i] : i \in DOMAIN link.in})
    /\ UNCHANGED <<sent, wire, queue, forwarder, client, got>>

Reconnect ==
    /\ ~link.up /\ link' = [link EXCEPT !.up = TRUE]
    /\ UNCHANGED <<sent, wire, queue, forwarder, client, got, due>>

-----------------------------------------------------------------------------
(* _forward_messages.                                                      *)

Take(c) ==
    /\ forwarder[c].at = "waiting" /\ queue[c] \notin {Closed, <<>>}
    /\ forwarder' = [forwarder EXCEPT ![c] = [at |-> "sending", event |-> Head(queue[c])]]
    /\ queue' = [queue EXCEPT ![c] = Tail(@)]
    /\ UNCHANGED <<sent, wire, link, client, got, due>>

(* A send that fails ends the task without a word; the subscription and    *)
(* its queue stay.                                                         *)
Dies(c) ==
    /\ forwarder' = [forwarder EXCEPT ![c] = [at |-> "dead", event |-> NoEvent]]
    /\ client' = [client EXCEPT !.rooms = @ \ {c}]
    /\ due' = {e \in due : sent[e] # c}
    /\ UNCHANGED got

Arrives(c) ==
    /\ client.open
    /\ forwarder' = [forwarder EXCEPT ![c] = [at |-> "waiting", event |-> NoEvent]]
    /\ got' = got \cup {forwarder[c].event}
    /\ UNCHANGED <<client, due>>

Forward(c) ==
    /\ forwarder[c].at = "sending"
    /\ Dies(c) \/ Arrives(c)
    /\ UNCHANGED <<sent, wire, link, queue>>

-----------------------------------------------------------------------------
(* websocket_handler: one message of the client after the other.           *)

Reading == client.open /\ client.telling = {}

SubscribeAgain(c) ==        \* a defect: every subscription starts with a queue of its own
    /\ Reading
    /\ client' = [client EXCEPT !.telling = {c}]
    /\ queue' = [queue EXCEPT ![c] = <<>>]
    /\ forwarder' = [forwarder EXCEPT ![c].at = "waiting"]
    /\ UNCHANGED <<sent, wire, link, got, due>>

(* A second subscription to a channel changes nothing.                     *)
Subscribe(c) ==
    /\ Reading
    /\ client' = [client EXCEPT !.telling = {c}]
    /\ IF forwarder[c].at # "none" THEN UNCHANGED <<queue, forwarder>>
       ELSE /\ queue' = [queue EXCEPT ![c] = <<>>]
            /\ forwarder' = [forwarder EXCEPT ![c].at = "waiting"]
    /\ UNCHANGED <<sent, wire, link, got, due>>

(* The confirmation does not tell whether the task still lives.            *)
TellSubscribed(c) ==
    /\ client.open /\ c \in client.telling
    /\ client' = [client EXCEPT !.telling = {},
                                !.rooms = IF forwarder[c].at = "dead" THEN @ ELSE @ \cup {c}]
    /\ UNCHANGED <<sent, wire, link, queue, forwarder, got, due>>

(* The task is cancelled, the queue unregistered, the task awaited.        *)
Unregister(c) ==
    /\ queue' = [queue EXCEPT ![c] = Closed]
    /\ forwarder' = [forwarder EXCEPT ![c] = [at |-> "none", event |-> NoEvent]]
    /\ due' = {e \in due : sent[e] # c}

Unsubscribe(c) ==
    /\ Reading
    /\ Unregister(c)
    /\ client' = [client EXCEPT !.rooms = @ \ {c}]
    /\ UNCHANGED <<sent, wire, link, got>>

Disconnect ==
    /\ client.open /\ client' = [open |-> FALSE, telling |-> {}, rooms |-> {}]
    /\ due' = {}
    /\ UNCHANGED <<sent, wire, link, queue, forwarder, got>>

(* The cleanup of the handler.                                             *)
Cleanup(c) ==
    /\ ~client.open /\ forwarder[c].at # "none"
    /\ Unregister(c)
    /\ UNCHANGED <<sent, wire, link, client, got>>

Next ==
    \/ \E c \in Channels : Send(c) \/ Take(c) \/ Forward(c)
    \/ \E e \in wire, fails \in BOOLEAN : Publish(e, fails)
    \/ Listen \/ Break \/ Reconnect
    \/ \E c \in Channels : Subscribe(c) \/ TellSubscribed(c) \/ Unsubscribe(c) \/ Cleanup(c)
    \/ Disconnect

(* Every task that can go on does; the listener and the client may fail,   *)
(* or leave, at any time.                                                  *)
Fairness ==
    /\ \A e \in 1..Events : WF_vars(\E fails \in BOOLEAN : Publish(e, fails))
    /\ WF_vars(Listen)
    /\ \A c \in Channels : WF_vars(Take(c)) /\ WF_vars(Forward(c))

Spec == Init /\ [][Next]_vars /\ Fairness

-----------------------------------------------------------------------------
(* What a worker sends about a transaction, when the client was told that  *)
(* it is subscribed, reaches the client, or a failure or the client itself *)
(* has ended the subscription or lost the event on its way (then it is     *)
(* taken out of _due_).                                                    *)
EventsArrive == \A e \in 1..Events : e \in due ~> (e \in got \/ e \notin due)
=============================================================================
