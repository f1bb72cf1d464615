------------------------------- MODULE EventRing ------------------------------
(***************************************************************************)
(* Asynchronous events: the ring (src/src/event_ring.c), the opcode that   *)
(* drains it (src/src/protocol_diag.c), and the producer that hands out a  *)
(* resource, the accept pump over the listening sockets                    *)
(* (src/hal/ti/cc3501e_hw_ti_sock.c).                                      *)
(*                                                                         *)
(* Two contexts meet here: the bring-up task, whose Wi-Fi bodies and whose *)
(* pump push, and the SPI dispatch, which drains.  Push and the removal of *)
(* one entry are critical sections; a drain runs in the dispatch, which    *)
(* nothing here interrupts.                                                *)
(*                                                                         *)
(* A handle is an lwIP descriptor plus one: lwIP (external) gives the      *)
(* lowest free descriptor to the next socket, accepted or opened, so a     *)
(* closed one's handle comes back.                                         *)
(***************************************************************************)
EXTENDS Naturals, Sequences, SequencesExt, FiniteSetsExt

CONSTANTS NumHandles,   \* sockets lwIP has (MEMP_NUM_NETCONN)
          ListenMax,    \* CC3501E_SOCK_LISTEN_MAX (4 in the code)
          RingSlots,    \* CC3501E_EVENT_RING_SLOTS (16 in the code)
          DrainCap      \* room in a reply, in units of a bare entry's two bytes

ASSUME RingBounds ==
    /\ NumHandles \in Nat \ {0} /\ ListenMax \in Nat \ {0} /\ RingSlots \in Nat \ {0}
    /\ DrainCap \in Nat

Handles == 1 .. NumHandles

VARIABLES
    sock,            \* lwIP: free, open, listening, or conn (accepted)
    backlog,         \* lwIP: a client waits on the listening socket
    listen_handles,  \* the listen table; 0 is a free slot
    slot,            \* the pump's place in the table
    ring,            \* the queued events, head first
    reply,           \* entries of a drain reply that is on its way to the host
    known,           \* handles the host holds
    lost             \* ghost: accepted handles whose drain reply never arrived

ringVars == <<sock, backlog, listen_handles, slot, ring, reply, known, lost>>

Accepted(h) == [evt |-> "EVT_SOCK_ACCEPTED", handle |-> h]
WifiEvent == [evt |-> "EVT_WIFI", handle |-> 0]

RingInit ==
    /\ sock = [h \in Handles |-> "free"]
    /\ backlog = [h \in Handles |-> FALSE]
    /\ listen_handles = [i \in 1 .. ListenMax |-> 0]
    /\ slot = 1
    /\ ring = << >> /\ reply = << >>
    /\ known = {} /\ lost = {}

Free == {h \in Handles : sock[h] = "free"}

-------------------------------------------------------------------------------

(* event_ring_push: 0 and no change when the ring is full.  The attention  *)
(* pulse that follows either way is not modelled here.                     *)
Full == Len(ring) >= RingSlots
Pushed(e) == IF Full THEN ring ELSE Append(ring, e)

(* wifi_conn_set, in a Wi-Fi body, reports the connection's new state; a   *)
(* full ring drops the report.                                             *)
WifiPush ==
    /\ ring' = Pushed(WifiEvent)
    /\ UNCHANGED <<sock, backlog, listen_handles, slot, reply, known, lost>>

(* The bytes of an entry: two of header, and twelve of payload for an      *)
(* accepted connection.                                                    *)
Units(e) == IF e.evt = "EVT_SOCK_ACCEPTED" THEN 7 ELSE 1

(* The room the first n entries take in a reply. *)
RoomFor(n) == FoldSeq(LAMBDA e, sum : Units(e) + sum, 0, SubSeq(ring, 1, n))

(* GET_PENDING_EVENTS: as many entries as fit whole leave the ring for the *)
(* reply.  The opcode is answered inline and its reply is kept nowhere.    *)
event_ring_drain ==
    /\ reply = << >>
    /\ LET n == Max({k \in 0 .. Len(ring) : RoomFor(k) <= DrainCap})
       IN /\ reply' = SubSeq(ring, 1, n)
          /\ ring' = SubSeq(ring, n + 1, Len(ring))
    /\ UNCHANGED <<sock, backlog, listen_handles, slot, known, lost>>

(* The host reads the reply, or the frame is lost. *)
ReplyArrives ==
    /\ reply # << >>
    /\ reply' = << >>
    /\ LET told == {reply[i].handle : i \in DOMAIN reply} \ {0}
       IN \/ known' = known \cup told /\ lost' = lost
          \/ lost' = lost \cup told /\ known' = known
    /\ UNCHANGED <<sock, backlog, listen_handles, slot, ring>>

-------------------------------------------------------------------------------
(* The socket bodies, run by the worker on the task. *)

(* lwip_socket fails when no socket is left. *)
cc3501e_hw_sock_open ==
    /\ Free # {}
    /\ sock' = [sock EXCEPT ![Min(Free)] = "open"]
    /\ known' = known \cup {Min(Free)}
    /\ UNCHANGED <<backlog, listen_handles, slot, ring, reply, lost>>

listen_table_remove(h) == [i \in 1 .. ListenMax |-> IF listen_handles[i] = h THEN 0
                                                    ELSE listen_handles[i]]

(* The accept cannot be bounded; or no slot is left, found before the      *)
(* socket goes passive; or lwip_listen fails and the slot is given back;   *)
(* or the socket listens and its slot is claimed.  Listening again only    *)
(* refreshes the slot.                                                     *)
cc3501e_hw_sock_listen(h) ==
    /\ h \in known /\ sock[h] \in {"open", "listening"}
    /\ LET table == listen_table_remove(h)
           empty == {i \in 1 .. ListenMax : table[i] = 0}
       IN \/ UNCHANGED <<sock, listen_handles>>
          \/ /\ empty = {} \/ sock[h] = "open"
             /\ listen_handles' = table
             /\ sock' = sock
          \/ /\ empty # {}
             /\ listen_handles' = [table EXCEPT ![Min(empty)] = h]
             /\ sock' = [sock EXCEPT ![h] = "listening"]
    /\ UNCHANGED <<backlog, slot, ring, reply, known, lost>>

(* Variant for mutation: the listen table keeps the closed handle. *)
SockCloseKeepsSlot(h) ==
    /\ h \in known
    /\ sock' = [sock EXCEPT ![h] = "free"]
    /\ backlog' = [backlog EXCEPT ![h] = FALSE]
    /\ known' = known \ {h}
    /\ UNCHANGED <<listen_handles, slot, ring, reply, lost>>

(* The handle leaves the listen table before lwIP frees its descriptor. *)
cc3501e_hw_sock_close(h) ==
    /\ h \in known
    /\ listen_handles' = listen_table_remove(h)
    /\ sock' = [sock EXCEPT ![h] = "free"]
    /\ backlog' = [backlog EXCEPT ![h] = FALSE]
    /\ known' = known \ {h}
    /\ UNCHANGED <<slot, ring, reply, lost>>

(* A client reaches a listening socket. *)
ClientConnects(h) ==
    /\ sock[h] = "listening" /\ ~backlog[h]
    /\ backlog' = [backlog EXCEPT ![h] = TRUE]
    /\ UNCHANGED <<sock, listen_handles, slot, ring, reply, known, lost>>

-------------------------------------------------------------------------------
(* The accept pump: one slot of the table per step. *)

NextSlot == slot' = IF slot = ListenMax THEN 1 ELSE slot + 1

(* Variant for mutation: only the first listener is looked at. *)
WaitingOnFirst == slot = 1 /\ listen_handles[slot] # 0 /\ backlog[listen_handles[slot]]

(* The listener of this slot has a client. *)
Waiting == listen_handles[slot] # 0 /\ backlog[listen_handles[slot]]

(* Nobody listens there, or nobody is waiting. *)
PumpNone ==
    /\ ~Waiting
    /\ NextSlot
    /\ UNCHANGED <<sock, backlog, listen_handles, ring, reply, known, lost>>

(* Variant for mutation: an accepted socket is kept when the push fails. *)
PumpAcceptKeeps ==
    /\ Waiting /\ Free # {}
    /\ backlog' = [backlog EXCEPT ![listen_handles[slot]] = FALSE]
    /\ ring' = Pushed(Accepted(Min(Free)))
    /\ sock' = [sock EXCEPT ![Min(Free)] = "conn"]
    /\ NextSlot
    /\ UNCHANGED <<listen_handles, reply, known, lost>>

(* A client is accepted and its handle published; a full ring would hide   *)
(* it, so the connection is closed again.                                  *)
PumpAccept ==
    /\ Waiting /\ Free # {}
    /\ backlog' = [backlog EXCEPT ![listen_handles[slot]] = FALSE]
    /\ ring' = Pushed(Accepted(Min(Free)))
    /\ sock' = IF Full THEN sock ELSE [sock EXCEPT ![Min(Free)] = "conn"]
    /\ NextSlot
    /\ UNCHANGED <<listen_handles, reply, known, lost>>

(* lwIP has no descriptor left: accept fails and the client is dropped. *)
PumpRefused ==
    /\ Waiting /\ Free = {}
    /\ backlog' = [backlog EXCEPT ![listen_handles[slot]] = FALSE]
    /\ NextSlot
    /\ UNCHANGED <<sock, listen_handles, ring, reply, known, lost>>

cc3501e_hw_sock_accept_pump == PumpNone \/ PumpAccept \/ PumpRefused

-------------------------------------------------------------------------------

(* The handle of every accepted connection is with exactly one holder: the *)
(* host, one event in the ring or one in the reply on its way, or it was   *)
(* in a reply that was lost.  So no connection is silently kept for the    *)
(* life of the boot, and none is announced twice                           *)
(* (src/hal/ti/cc3501e_hw_ti_sock.c:430-436).                              *)
AcceptedIsHeld ==
    \A h \in Handles : sock[h] = "conn" =>
        LET events == reply \o ring
            holders == {i \in DOMAIN events : events[i].handle = h}
        IN Cardinality(holders) + Cardinality({h} \cap known) + Cardinality({h} \cap lost) = 1

(* The pump accepts only on listening sockets, and every listening socket  *)
(* has its slot: a closed one's descriptor, handed to another socket, is   *)
(* never accepted on, and no socket completes handshakes that nothing      *)
(* takes (src/hal/ti/cc3501e_hw_ti_sock.c:338-376 and 1120-1124).          *)
TableIsListeners ==
    /\ {listen_handles[i] : i \in 1 .. ListenMax} \ {0} = {h \in Handles : sock[h] = "listening"}
    /\ \A i, j \in 1 .. ListenMax :
          i # j /\ listen_handles[i] # 0 => listen_handles[i] # listen_handles[j]

===============================================================================
