------------------------------- MODULE SChat --------------------------------
(***************************************************************************)
(* The chat program of Part C (s-chat.c): copies of the program, one per   *)
(* peer, each with the four RT threads keyboard_input, listener_thread,    *)
(* display_thread and speaker_thread and mainp, talking over UDP.          *)
(*                                                                         *)
(* A step is the code of one thread from one RT Threads call (RttP, RttV,  *)
(* RttSleep) to the next, which is where another thread may run.  A        *)
(* semaphore is the sequence of the threads that have called RttP on it:   *)
(* the first one holds it, the others wait in the order they came          *)
(* (RTTFCFS); RttV drops the first.  A poll that finds nothing to read and *)
(* sleeps changes nothing and is no step.                                  *)
(*                                                                         *)
(* A line is who typed it and when (the timestamp and the text) and its    *)
(* length in bytes.  What is displayed of it is the line and perhaps more. *)
(* The program it was dequeued into ends with a null pointer dereference   *)
(* if the list gave it NULL.                                               *)
(***************************************************************************)
EXTENDS ListPool, Sequences, SequencesExt

CONSTANTS Peer,       \* running copies of the program
          PeerOf,     \* for each, the peer its command line names
          MAXLINE,    \* bytes of a read and of a receive buffer
          Sessions,   \* of [typists, lines, lengths, exits, reliable, zeroed]: at
                      \* whose keyboards somebody types, how many lines in all and
                      \* how long, whether one may start with "exit", whether the
                      \* network loses, doubles and reorders nothing, and whether
                      \* the memory that malloc returns holds only zeros
          Paced       \* TRUE: a line or a datagram comes only when the list
                      \* it will go to is empty

ASSUME SChatAssumption ==
    /\ PeerOf \in [Peer -> Peer]
    /\ MAXLINE \in Nat
    \* A read of MAXLINE bytes makes keyboard_input write behind its buffer.
    /\ Sessions \subseteq [typists : SUBSET Peer, lines : Nat, lengths : SUBSET (1 .. MAXLINE - 1),
                            exits : BOOLEAN, reliable : BOOLEAN, zeroed : BOOLEAN]
    /\ Paced \in BOOLEAN
    /\ MAX_LISTS >= 2

Thread == {"keyb", "lstnr", "spkr", "displr"}

outgoing_msgs == 0   \* the first list created
incoming_msgs == 1   \* the second
HEADER == 10         \* bytes of sec, usec and len

VARIABLES
    session,              \* one of Sessions, for good
    pool,                 \* per program, the list library's globals
    in_msg_access_sem,    \* guards outgoing_msgs
    out_msg_access_sem,   \* guards incoming_msgs
    cliaddr,              \* where the program sends
    shutdown_flag,
    pc,                   \* the next step of each thread of each program
    chat_msg,             \* the line each thread has in hand
    status,               \* "running", "done" or "crashed"
    net,                  \* datagrams on their way: [src, dst, line]
    typed,                \* history: lines read from each keyboard
    sent,                 \* history: lines given to sendto
    displayed             \* history: [line, tail] printed by display_thread

listVars   == <<pool, in_msg_access_sem, out_msg_access_sem>>
threadVars == <<pc, chat_msg>>
history    == <<typed, sent, displayed>>
vars == <<listVars, cliaddr, shutdown_flag, threadVars, status, net, history>>

(* mainp up to its loop: two semaphores, two lists, the address of the     *)
(* command line, and four threads.                                         *)
Init ==
    /\ session \in Sessions
    /\ pool = [p \in Peer |-> ListCreate(ListCreate(InitialPool).pool).pool]
    /\ in_msg_access_sem = [p \in Peer |-> <<>>]
    /\ out_msg_access_sem = [p \in Peer |-> <<>>]
    /\ cliaddr = PeerOf
    /\ shutdown_flag = [p \in Peer |-> 0]
    /\ pc = [p \in Peer |-> [t \in Thread |-> "loop"]]
    /\ chat_msg = [p \in Peer |-> [t \in Thread |-> NULL]]
    /\ status = [p \in Peer |-> "running"]
    /\ net = <<>>
    /\ typed = [p \in Peer |-> <<>>]
    /\ sent = [p \in Peer |-> <<>>]
    /\ displayed = [p \in Peer |-> <<>>]

At(p, t, label) == status[p] = "running" /\ pc[p][t] = label
Goto(p, t, label) == pc' = [pc EXCEPT ![p][t] = label]
InHand(p, t, line) == chat_msg' = [chat_msg EXCEPT ![p][t] = line]

RttP(sem, p, t) == sem' = [sem EXCEPT ![p] = Append(@, t)]
RttV(sem, p)    == sem' = [sem EXCEPT ![p] = Tail(@)]

(* Thread t of p has got past RttP(sem).                                   *)
Entered(sem, p, t) == At(p, t, "critical") /\ Head(sem[p]) = t

Empty(p, l) == ListCount(pool[p], l) = 0

Crash(p) ==
    /\ status' = [status EXCEPT ![p] = "crashed"]
    /\ UNCHANGED <<listVars, cliaddr, shutdown_flag, threadVars, net, history>>

-----------------------------------------------------------------------------
(* keyboard_input.                                                         *)

TotalTyped == FoldFunction(LAMBDA lines, n : Len(lines) + n, 0, typed)

(* read returns a line, and the thread goes to the semaphore.              *)
KeyboardRead(p, n, exit) ==
    LET line == [by |-> p, k |-> Len(typed[p]) + 1, len |-> n, exit |-> exit]
    IN  /\ At(p, "keyb", "loop")
        /\ Paced => Empty(p, outgoing_msgs)
        /\ TotalTyped < session.lines
        /\ typed' = [typed EXCEPT ![p] = Append(@, line)]
        /\ InHand(p, "keyb", line)
        /\ RttP(in_msg_access_sem, p, "keyb")
        /\ Goto(p, "keyb", "critical")
        /\ UNCHANGED <<pool, out_msg_access_sem, cliaddr, shutdown_flag, status,
                       net, sent, displayed>>

(* End of file, or an error: the thread ends, and nothing else.            *)
KeyboardEnd(p) ==
    /\ At(p, "keyb", "loop")
    /\ Goto(p, "keyb", "ended")
    /\ UNCHANGED <<listVars, cliaddr, shutdown_flag, chat_msg, status, net, history>>

(* Mutant: the semaphore is not given back.                                *)
KeyboardAppendKeeping(p) ==
    /\ Entered(in_msg_access_sem, p, "keyb")
    /\ pool' = [pool EXCEPT ![p] = ListAppend(@, outgoing_msgs, chat_msg[p]["keyb"]).pool]
    /\ Goto(p, "keyb", "echo")
    /\ UNCHANGED <<in_msg_access_sem, out_msg_access_sem, cliaddr, shutdown_flag,
                   chat_msg, status, net, history>>

(* ListAppend; when it fails the line is gone.                             *)
KeyboardAppend(p) ==
    /\ Entered(in_msg_access_sem, p, "keyb")
    /\ pool' = [pool EXCEPT ![p] = ListAppend(@, outgoing_msgs, chat_msg[p]["keyb"]).pool]
    /\ RttV(in_msg_access_sem, p)
    /\ Goto(p, "keyb", "echo")
    /\ UNCHANGED <<out_msg_access_sem, cliaddr, shutdown_flag, chat_msg, status,
                   net, history>>

KeyboardEcho(p) ==
    LET exit == chat_msg[p]["keyb"].exit
    IN  /\ At(p, "keyb", "echo")
        /\ shutdown_flag' = [shutdown_flag EXCEPT ![p] = IF exit THEN 1 ELSE @]
        /\ Goto(p, "keyb", IF exit THEN "ended" ELSE "loop")
        /\ InHand(p, "keyb", NULL)
        /\ UNCHANGED <<listVars, cliaddr, status, net, history>>

-----------------------------------------------------------------------------
(* speaker_thread and display_thread: both take the first line off a list  *)
(* within its semaphore, and sleep when there is none.                     *)

GoCritical(sem, p, t) ==
    /\ At(p, t, "loop")
    /\ RttP(sem, p, t)
    /\ Goto(p, t, "critical")

(* Mutant: the line is looked at but not removed.                          *)
DequeueFirstOnly(q, l) == ListFirst(q, l)

Dequeue(q, l) == ListRemove(ListFirst(q, l).pool, l)

SpeakerEnter(p) ==
    /\ GoCritical(in_msg_access_sem, p, "spkr")
    /\ UNCHANGED <<pool, out_msg_access_sem, cliaddr, shutdown_flag, chat_msg,
                   status, net, history>>

(* The line dequeued is packed into the buffer, and the semaphore given up.*)
Spoken(p, first) ==
    /\ pool' = [pool EXCEPT ![p] = first.pool]
    /\ InHand(p, "spkr", first.ret)
    /\ Goto(p, "spkr", "send")
    /\ RttV(in_msg_access_sem, p)
    /\ UNCHANGED <<out_msg_access_sem, cliaddr, shutdown_flag, status, net, history>>

SpeakerTake(p) ==
    LET first == Dequeue(pool[p], outgoing_msgs)
    IN  /\ Entered(in_msg_access_sem, p, "spkr")
        /\ \/ /\ Empty(p, outgoing_msgs)
              /\ Goto(p, "spkr", "loop")
              /\ RttV(in_msg_access_sem, p)
              /\ UNCHANGED <<pool, out_msg_access_sem, cliaddr, shutdown_flag,
                             chat_msg, status, net, history>>
           \/ /\ ~Empty(p, outgoing_msgs)
              /\ IF first.ret = NULL THEN Crash(p) ELSE Spoken(p, first)

(* sendto, to wherever cliaddr points by now.  An unreliable network makes *)
(* none, one or two datagrams of it.                                       *)
SpeakerSend(p) ==
    LET datagram == [src |-> p, dst |-> cliaddr[p], line |-> chat_msg[p]["spkr"]]
    IN  /\ At(p, "spkr", "send")
        /\ \/ ~session.reliable /\ net' = net
           \/ net' = Append(net, datagram)
           \/ ~session.reliable /\ net' = net \o <<datagram, datagram>>
        /\ sent' = [sent EXCEPT ![p] = Append(@, chat_msg[p]["spkr"])]
        /\ InHand(p, "spkr", NULL)
        /\ Goto(p, "spkr", "loop")
        /\ UNCHANGED <<listVars, cliaddr, shutdown_flag, status, typed, displayed>>

DisplayEnter(p) ==
    /\ GoCritical(out_msg_access_sem, p, "displr")
    /\ UNCHANGED <<pool, in_msg_access_sem, cliaddr, shutdown_flag, chat_msg,
                   status, net, history>>

(* The line is printed up to the next zero byte.  The listener has copied  *)
(* its bytes, and no zero after them, into memory fresh from malloc: what  *)
(* that held before may follow as a tail.                                  *)
Displayed(p, first) ==
    /\ pool' = [pool EXCEPT ![p] = first.pool]
    /\ \E tail \in IF session.zeroed THEN {FALSE} ELSE BOOLEAN :
          displayed' = [displayed EXCEPT ![p] = Append(@, [line |-> first.ret, tail |-> tail])]
    /\ Goto(p, "displr", "loop")
    /\ RttV(out_msg_access_sem, p)
    /\ UNCHANGED <<in_msg_access_sem, cliaddr, shutdown_flag, chat_msg, status,
                   net, typed, sent>>

DisplayTake(p) ==
    LET first == Dequeue(pool[p], incoming_msgs)
    IN  /\ Entered(out_msg_access_sem, p, "displr")
        /\ \/ /\ Empty(p, incoming_msgs)
              /\ Goto(p, "displr", "loop")
              /\ RttV(out_msg_access_sem, p)
              /\ UNCHANGED <<pool, in_msg_access_sem, cliaddr, shutdown_flag,
                             chat_msg, status, net, history>>
           \/ /\ ~Empty(p, incoming_msgs)
              /\ IF first.ret = NULL THEN Crash(p) ELSE Displayed(p, first)

-----------------------------------------------------------------------------
(* listener_thread.                                                        *)

(* Places of net whose datagram recvfrom may return to p.                  *)
Arrivals(p) ==
    {k \in DOMAIN net :
       /\ net[k].dst = p
       /\ session.reliable => \A j \in 1 .. k - 1 : net[j].dst # p}

(* recvfrom cuts a datagram to the size of its buffer.                     *)
ReceivedBytes(line) ==
    IF HEADER + line.len > MAXLINE THEN MAXLINE ELSE HEADER + line.len

(* Mutant: what was received is shown, however long the line claims to be. *)
AnyLength(line) == TRUE

(* Mutant: a datagram that fills the buffer is taken for one that was cut. *)
Filled(line) == HEADER + line.len < MAXLINE

Whole(line) == HEADER + line.len <= ReceivedBytes(line)

(* The sender's address replaces cliaddr, whatever becomes of the line.    *)
ListenerReceive(p) ==
    \E k \in Arrivals(p) :
        LET d == net[k]
        IN  /\ At(p, "lstnr", "loop")
            /\ Paced => Empty(p, incoming_msgs)
            /\ net' = RemoveAt(net, k)
            /\ cliaddr' = [cliaddr EXCEPT ![p] = d.src]
            /\ \/ ~Whole(d.line) /\ UNCHANGED <<threadVars, out_msg_access_sem>>
               \/ /\ Whole(d.line)
                  /\ InHand(p, "lstnr", [d.line EXCEPT !.len = ReceivedBytes(d.line) - HEADER])
                  /\ RttP(out_msg_access_sem, p, "lstnr")
                  /\ Goto(p, "lstnr", "critical")
            /\ UNCHANGED <<pool, in_msg_access_sem, shutdown_flag, status, history>>

ListenerAppend(p) ==
    /\ Entered(out_msg_access_sem, p, "lstnr")
    /\ pool' = [pool EXCEPT ![p] = ListAppend(@, incoming_msgs, chat_msg[p]["lstnr"]).pool]
    /\ InHand(p, "lstnr", NULL)
    /\ RttV(out_msg_access_sem, p)
    /\ Goto(p, "lstnr", "loop")
    /\ UNCHANGED <<in_msg_access_sem, cliaddr, shutdown_flag, status, net, history>>

-----------------------------------------------------------------------------
(* mainp finds the flag set and kills the four threads where they stand.   *)
Shutdown(p) ==
    /\ status[p] = "running"
    /\ shutdown_flag[p] = 1
    /\ status' = [status EXCEPT ![p] = "done"]
    /\ UNCHANGED <<listVars, cliaddr, shutdown_flag, threadVars, net, history>>

keyboard_input(p)  == KeyboardAppend(p) \/ KeyboardEcho(p)
speaker_thread(p)  == SpeakerEnter(p) \/ SpeakerTake(p) \/ SpeakerSend(p)
display_thread(p)  == DisplayEnter(p) \/ DisplayTake(p)
listener_thread(p) == ListenerReceive(p) \/ ListenerAppend(p)

Typing(p) ==
    \/ \E n \in session.lengths : KeyboardRead(p, n, FALSE)
    \/ session.exits /\ \E n \in session.lengths : KeyboardRead(p, n, TRUE)
    \/ KeyboardEnd(p)

Next ==
    \E p \in Peer :
        \/ p \in session.typists /\ Typing(p)
        \/ keyboard_input(p) \/ speaker_thread(p) \/ display_thread(p)
        \/ listener_thread(p) \/ Shutdown(p)

Spec == Init /\ [][Next /\ UNCHANGED session]_<<vars, session>>

(***************************************************************************)
(* Fairness: the RT Threads scheduler is round-robin and every sleep is    *)
(* finite, so each thread and mainp run again and again; nobody has to     *)
(* type.  It is assumed of the sessions that LineIsDisplayed speaks of.    *)
(***************************************************************************)
FairSpec ==
    /\ Spec
    /\ \A p \in Peer : /\ WF_vars(session.reliable /\ keyboard_input(p))
                       /\ WF_vars(session.reliable /\ speaker_thread(p))
                       /\ WF_vars(session.reliable /\ display_thread(p))
                       /\ WF_vars(session.reliable /\ listener_thread(p))
                       /\ WF_vars(session.reliable /\ Shutdown(p))

-----------------------------------------------------------------------------
(***************************************************************************)
(* No thread dereferences the NULL that ListRemove returns.                *)
(***************************************************************************)
NoCrash == \A p \in Peer : status[p] # "crashed"

(* The lines in the lists of program p.                                    *)
Stored(p, by) == {n \in Node : pool[p].item[n] # NULL /\ pool[p].item[n].by = by}

(***************************************************************************)
(* A line that was read is in one place: in the hand of the keyboard       *)
(* thread before it is appended, in a node, in the hand of the speaker, or *)
(* sent; it is sent once, and none is lost between the two threads.        *)
(***************************************************************************)
OneCopy ==
    \A p \in Peer :
        LET before == IF pc[p]["keyb"] = "critical" THEN 1 ELSE 0
            after  == IF chat_msg[p]["spkr"] = NULL THEN 0 ELSE 1
        IN  Len(typed[p]) = before + Cardinality(Stored(p, p)) + after + Len(sent[p])

(* The lines of s that fit into a datagram the listener accepts.           *)
Fitting(s) == SelectSeq(s, LAMBDA line : HEADER + line.len <= MAXLINE)

(***************************************************************************)
(* On the way from the sender to the screen, over a network that loses and *)
(* doubles nothing, a line that fits is in one place: a datagram, the hand *)
(* of the listener, a node of the peer's list, or displayed, once.         *)
(***************************************************************************)
ReceivedOnce ==
    session.reliable => \A p \in Peer :
        LET q      == PeerOf[p]
            before == Cardinality({k \in DOMAIN net : net[k].dst = q /\ HEADER + net[k].line.len <= MAXLINE})
            inHand == IF chat_msg[q]["lstnr"] = NULL THEN 0 ELSE 1
        IN  Len(Fitting(sent[p])) =
              before + inHand + Cardinality(Stored(q, p)) + Len(displayed[q])

(* The places of s that show the line that the kth one shows.              *)
Repeats(s, k) == {j \in DOMAIN s : s[j].line = s[k].line}

(***************************************************************************)
(* Whatever the network does, what a program displays begins with a line   *)
(* that another program sent, in its full length, and a line is displayed  *)
(* at most as often as the network delivered it: twice.                    *)
(***************************************************************************)
DisplayedWasSent ==
    \A p \in Peer : \A k \in DOMAIN displayed[p] :
        /\ \E q \in Peer \ {p} : displayed[p][k].line \in Range(sent[q])
        /\ Cardinality(Repeats(displayed[p], k)) <= 2

(***************************************************************************)
(* partC.testplan.txt:124 of what display_thread prints: "Timestamps and   *)
(* payload text match what was typed by the peer."                         *)
(***************************************************************************)
DisplayedAsTyped == \A p \in Peer : \A k \in DOMAIN displayed[p] : ~displayed[p][k].tail

(***************************************************************************)
(* partC.design.txt:26: "Every line typed appears on both terminals", over *)
(* a reliable network and as long as both programs run.                    *)
(***************************************************************************)
EveryLineAppears ==
    \A p \in Peer :
        session.reliable /\ Len(typed[p]) > Len(displayed[PeerOf[p]]) ~>
            \/ Len(displayed[PeerOf[p]]) = Len(typed[p])
            \/ status[p] # "running" \/ status[PeerOf[p]] # "running"

(***************************************************************************)
(* A program sends to the peer of its command line.                        *)
(***************************************************************************)
SendsToPeer == \A k \in DOMAIN net : net[k].dst = PeerOf[net[k].src]

(***************************************************************************)
(* Over a reliable network, the lines that fit and were typed are all      *)
(* displayed at the peer in the end, if neither program has ended.         *)
(***************************************************************************)
LineIsDisplayed ==
    \A p \in Peer :
        session.reliable /\ Len(Fitting(typed[p])) > Len(displayed[PeerOf[p]]) ~>
            \/ Len(displayed[PeerOf[p]]) = Len(Fitting(typed[p]))
            \/ status[p] # "running" \/ status[PeerOf[p]] # "running"

(***************************************************************************)
(* When one side types exit, both programs end.                            *)
(***************************************************************************)
ExitEndsBoth ==
    \A p \in Peer : shutdown_flag[p] = 1 ~> \A q \in Peer : status[q] = "done"

(***************************************************************************)
(* Every line typed before the exit has been sent when the program ends.   *)
(***************************************************************************)
DoneAfterSending ==
    \A p \in Peer : status[p] = "done" => sent[p] = typed[p]

=============================================================================
