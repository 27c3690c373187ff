------------------------------ MODULE EventBus ------------------------------
(***************************************************************************)
(* The bus as one subscriber meets it (events.py), with the stream that    *)
(* reads from it (`event_stream` in routes_live.py).  A publish never      *)
(* waits: it schedules a delivery on the subscriber's loop, whose          *)
(* callbacks run in the order they were scheduled.  A delivery to a full   *)
(* queue is lost (the code counts it).  Nothing is replayed: who           *)
(* subscribes again starts with an empty queue.                            *)
(*                                                                         *)
(* The page at the other end is the module that extends this one.          *)
(***************************************************************************)
EXTENDS Naturals, Sequences

CONSTANT Capacity     \* `maxsize` of the queue

ASSUME BusAssumption == Capacity \in Nat \ {0}

VARIABLES
  subscribed,   \* the page's stream is in `_subscribers`
  scheduled,    \* deliveries `call_soon_threadsafe` has taken
  queue         \* the subscriber's `asyncio.Queue`

busVars == <<subscribed, scheduled, queue>>

BusInit == subscribed = FALSE /\ scheduled = <<>> /\ queue = <<>>

(* `subscribe`: a queue of its own, empty.                                 *)
Subscribes ==
  /\ ~subscribed
  /\ subscribed' = TRUE
  /\ UNCHANGED <<scheduled, queue>>

(* The end of the block, however the reader went: the queue goes with it,  *)
(* and what was scheduled for it reaches nobody.                           *)
Unsubscribes ==
  /\ subscribed' = FALSE
  /\ scheduled' = <<>> /\ queue' = <<>>

(* `publish`, from any thread.                                             *)
Published(event) ==
  /\ scheduled' = IF subscribed THEN Append(scheduled, event) ELSE scheduled
  /\ UNCHANGED <<subscribed, queue>>

(* `_deliver`, on the loop.                                                *)
Fits == Len(queue) < Capacity

Delivers ==
  /\ scheduled # <<>>
  /\ scheduled' = Tail(scheduled)
  /\ queue' = IF Fits THEN Append(queue, Head(scheduled)) ELSE queue
  /\ UNCHANGED subscribed

(* The stream takes the oldest event and sends it; the page has it.        *)
Streams ==
  /\ queue # <<>>
  /\ queue' = Tail(queue)
  /\ UNCHANGED <<subscribed, scheduled>>
=============================================================================
