---------------------------- MODULE TrainingLog ----------------------------
(***************************************************************************)
(* The live training log of the backend: a bounded buffer of lines, a list *)
(* of bounded queues, one per client of the event stream, and the thread   *)
(* of each POST, which walks that list while the event loop changes it.    *)
(* All this is the memory of one worker process: a line reaches the        *)
(* process its POST is given to, and the clients of that process only.     *)
(***************************************************************************)
EXTENDS Naturals, Sequences, SequencesExt

CONSTANTS Processes,  \* worker processes of the backend
          Clients,    \* connections to the stream
          NumLines,   \* bound: lines posted
          MaxLines,   \* the buffer's maxlen, 2000 in the code
          MaxQueue    \* the queue's maxsize, 500 in the code

ASSUME LogAssumption == /\ NumLines \in Nat
                        /\ MaxLines \in Nat \ {0}
                        /\ MaxQueue \in Nat \ {0}

VARIABLES
  posted,       \* how many lines have been posted
  buffer,       \* _log_buffer of each process
  subscribers,  \* _subscribers of each process, a list of queues
  at,           \* the process a client is connected to
  client,       \* how far its generator is
  backlog,      \* the part of its copy of the buffer it has not been sent
  queue,        \* its queue
  sent,         \* what it has been sent
  walk,         \* each line's place in its broadcast, 0 before and after
  home,         \* the process a line was posted to
  due,          \* history: clients in the list when a line's broadcast began
  excused       \* history: those it may miss, until its broadcast ends

connection == <<at, client, backlog, queue, sent>>
logVars == <<posted, buffer, subscribers, connection, walk, home, due, excused>>

Lines == 1 .. NumLines
Phases == {"away", "waiting", "replay", "live", "gone"}

LogTypeOK ==
  /\ posted \in 0 .. NumLines
  /\ \A p \in Processes : /\ ToSet(buffer[p]) \subseteq Lines
                          /\ Len(buffer[p]) <= MaxLines
                          /\ ToSet(subscribers[p]) \subseteq Clients
  /\ at \in [Clients -> Processes]
  /\ client \in [Clients -> Phases]
  /\ \A c \in Clients : /\ ToSet(backlog[c]) \cup ToSet(queue[c]) \cup sent[c]
                             \subseteq Lines
                        /\ Len(queue[c]) <= MaxQueue
  /\ walk \in [Lines -> Nat]
  /\ home \in [Lines -> Processes]
  /\ due \in [Lines -> SUBSET Clients]
  /\ excused \in [Lines -> SUBSET Clients]

LogInit == /\ posted = 0
           /\ buffer = [p \in Processes |-> <<>>]
           /\ subscribers = [p \in Processes |-> <<>>]
           /\ at \in [Clients -> Processes]
           /\ client = [c \in Clients |-> "away"]
           /\ backlog = [c \in Clients |-> <<>>]
           /\ queue = [c \in Clients |-> <<>>]
           /\ sent = [c \in Clients |-> {}]
           /\ walk = [n \in Lines |-> 0]
           /\ home \in [Lines -> Processes]
           /\ due = [n \in Lines |-> {}]
           /\ excused = [n \in Lines |-> {}]

\* Mutant of Kept: a deque without a maxlen.
KeptAll(seq) == seq

\* A deque with a maxlen forgets its oldest.
Kept(seq) == IF Len(seq) > MaxLines THEN Tail(seq) ELSE seq
----------------------------------------------------------------------------
\* push_log(): the line goes to the buffer, which forgets its oldest, and
\* the walk over the list begins.
PushLog(n) ==
  /\ n = posted + 1
  /\ n \in Lines
  /\ posted' = n
  /\ buffer' = [buffer EXCEPT ![home[n]] = Kept(Append(@, n))]
  /\ walk' = [walk EXCEPT ![n] = 1]
  /\ due' = [due EXCEPT ![n] = ToSet(subscribers[home[n]])]
  /\ UNCHANGED <<subscribers, connection, home, excused>>

Walking(n) == walk[n] # 0
Listed(n) == subscribers[home[n]]

\* Mutant of Put: a full queue forgets its oldest line for the new one.
PutForgetting(n) ==
  /\ Walking(n)
  /\ walk[n] <= Len(Listed(n))
  /\ walk' = [walk EXCEPT ![n] = @ + 1]
  /\ LET c == Listed(n)[walk[n]]
         full == Len(queue[c]) = MaxQueue
     IN queue' = [queue EXCEPT ![c] = Append(IF full THEN Tail(@) ELSE @, n)]
  /\ UNCHANGED <<posted, buffer, subscribers, at, client, backlog, sent, home, due,
                 excused>>

\* One turn of _broadcast(): put_nowait, or nothing when the queue is full.
Put(n) ==
  /\ Walking(n)
  /\ walk[n] <= Len(Listed(n))
  /\ walk' = [walk EXCEPT ![n] = @ + 1]
  /\ LET c == Listed(n)[walk[n]]
         full == Len(queue[c]) = MaxQueue
     IN /\ queue' = IF full THEN queue ELSE [queue EXCEPT ![c] = Append(@, n)]
        /\ excused' = IF full THEN [excused EXCEPT ![n] = @ \cup {c}] ELSE excused
  /\ UNCHANGED <<posted, buffer, subscribers, at, client, backlog, sent, home, due>>

EndWalk(n) == /\ Walking(n)
              /\ walk[n] > Len(Listed(n))
              /\ walk' = [walk EXCEPT ![n] = 0]
              /\ due' = [due EXCEPT ![n] = {}]
              /\ excused' = [excused EXCEPT ![n] = {}]
              /\ UNCHANGED <<posted, buffer, subscribers, connection, home>>

\* start_job() and clear_log() forget the buffer; queues keep their lines.
ClearLog(p) == /\ buffer[p] # <<>>
               /\ buffer' = [buffer EXCEPT ![p] = <<>>]
               /\ UNCHANGED <<posted, subscribers, connection, walk, home, due, excused>>
----------------------------------------------------------------------------
\* stream_logs(): the queue is in the list before the generator starts.
Subscribe(c) ==
  /\ client[c] = "away"
  /\ client' = [client EXCEPT ![c] = "waiting"]
  /\ subscribers' = [subscribers EXCEPT ![at[c]] = Append(@, c)]
  /\ UNCHANGED <<posted, buffer, at, backlog, queue, sent, walk, home, due, excused>>

\* Mutant of Replay: what is queued by then is taken for replayed.
ReplayEmptyingQueue(c) ==
  /\ client[c] = "waiting"
  /\ client' = [client EXCEPT ![c] = "replay"]
  /\ backlog' = [backlog EXCEPT ![c] = buffer[at[c]]]
  /\ queue' = [queue EXCEPT ![c] = <<>>]
  /\ UNCHANGED <<posted, buffer, subscribers, at, sent, walk, home, due, excused>>

\* list(_log_buffer), taken when the generator is first asked for a line.
Replay(c) ==
  /\ client[c] = "waiting"
  /\ client' = [client EXCEPT ![c] = "replay"]
  /\ backlog' = [backlog EXCEPT ![c] = buffer[at[c]]]
  /\ UNCHANGED <<posted, buffer, subscribers, at, queue, sent, walk, home, due, excused>>

SendBacklog(c) ==
  /\ client[c] = "replay"
  /\ IF backlog[c] = <<>>
     THEN client' = [client EXCEPT ![c] = "live"] /\ UNCHANGED <<backlog, sent>>
     ELSE /\ sent' = [sent EXCEPT ![c] = @ \cup {Head(backlog[c])}]
          /\ backlog' = [backlog EXCEPT ![c] = Tail(@)]
          /\ UNCHANGED client
  /\ UNCHANGED <<posted, buffer, subscribers, at, queue, walk, home, due, excused>>

SendLive(c) ==
  /\ client[c] = "live"
  /\ queue[c] # <<>>
  /\ sent' = [sent EXCEPT ![c] = @ \cup {Head(queue[c])}]
  /\ queue' = [queue EXCEPT ![c] = Tail(@)]
  /\ UNCHANGED <<posted, buffer, subscribers, at, client, backlog, walk, home, due,
                 excused>>

(* The client goes away.  Only the live part is inside the try that takes  *)
(* the queue off the list: one that goes earlier leaves it there.          *)
Leave(c) ==
  /\ client[c] \in {"waiting", "replay", "live"}
  /\ client' = [client EXCEPT ![c] = "gone"]
  /\ IF client[c] = "live"
     THEN /\ subscribers' = [subscribers EXCEPT ![at[c]] = RemoveFirst(@, c)]
          /\ queue' = [queue EXCEPT ![c] = <<>>]
          /\ excused' = [n \in Lines |-> IF Walking(n) /\ home[n] = at[c]
                                         THEN due[n] ELSE excused[n]]
     ELSE UNCHANGED <<subscribers, queue, excused>>
  /\ backlog' = [backlog EXCEPT ![c] = <<>>]
  /\ sent' = [sent EXCEPT ![c] = {}]
  /\ UNCHANGED <<posted, buffer, at, walk, home, due>>

Generator(c) == Replay(c) \/ SendBacklog(c) \/ SendLive(c)

LogNext == \/ \E n \in Lines : PushLog(n) \/ Put(n) \/ EndWalk(n)
           \/ \E p \in Processes : ClearLog(p)
           \/ \E c \in Clients : Subscribe(c) \/ Generator(c) \/ Leave(c)

\* A POST's thread and the event loop go on as long as they can; nobody has
\* to post, subscribe or leave.
LogFairness == /\ \A n \in Lines : WF_logVars(Put(n) \/ EndWalk(n))
               /\ \A c \in Clients : WF_logVars(Generator(c))

LogSpec == LogInit /\ [][LogNext]_logVars /\ LogFairness
----------------------------------------------------------------------------
Reached(c) == sent[c] \cup ToSet(backlog[c]) \cup ToSet(queue[c])

\* When the broadcast of a line ends, each client that was in the list when
\* it began, and is still there, has been sent the line or has it waiting,
\* unless its queue was full, or another client left under way: the list is
\* shortened while it is walked, and the walk passes over a client.
NoLineIsLost ==
  [][\A n \in Lines : EndWalk(n) =>
       \A c \in due[n] \ excused[n] : n \in Reached(c) \/ client[c] = "gone"]_logVars

\* A client that stays is sent every line that has reached its queue.
QueuedIsSent ==
  \A c \in Clients : \A n \in Lines :
    n \in ToSet(queue[c]) ~> n \in sent[c] \/ client[c] = "gone"
=============================================================================
