------------------------------ MODULE SlipUART ------------------------------
(***************************************************************************)
(* The SLIP device (vp/src/platform/common/slip.cpp): the UART of          *)
(* AbstractUART whose inputs are the packets of the tun device, which      *)
(* SLIP::handle_input turns into the bytes the guest receives, and whose   *)
(* output SLIP::write_data collects in sndbuf until a packet is complete.  *)
(* The guest encodes what it sends and decodes what it reads as RFC 1055   *)
(* says.  A byte is one of the four that SLIP gives a meaning, or any      *)
(* other.                                                                  *)
(***************************************************************************)
EXTENDS AbstractUART, SequencesExt

CONSTANT Packets   \* [in |-> the packets that come, out |-> those the guest sends]

END == "END"
ESC == "ESC"
ESC_END == "ESC_END"
ESC_ESC == "ESC_ESC"

\* handle_input escapes the bytes of a packet ...
Escape(b) ==
    CASE b = END -> <<ESC, ESC_END>>
      [] b = ESC -> <<ESC, ESC_ESC>>
      [] OTHER   -> <<b>>

\* ... and ends it.
Encode(packet) ==
    FlattenSeq([i \in DOMAIN packet |-> Escape(packet[i])]) \o <<END>>

\* The state of write_data: the packet being collected and those sent.
Empty == [sndbuf |-> <<>>, sent |-> <<>>]

\* write_data sends sndbuf at an END, resolves an escape it finds at the end of
\* sndbuf, and appends anything else.
IsEscaped(buf) == buf # <<>> /\ Last(buf) = ESC

WriteDataNoEsc(s, b) ==
    CASE b = END /\ s.sndbuf # <<>> -> [sndbuf |-> <<>>, sent |-> Append(s.sent, s.sndbuf)]
      [] b = END /\ s.sndbuf = <<>> -> s
      [] b = ESC_END /\ IsEscaped(s.sndbuf) ->
            [s EXCEPT !.sndbuf = Append(Front(s.sndbuf), END)]
      [] OTHER -> [s EXCEPT !.sndbuf = Append(s.sndbuf, b)]

WriteData(s, b) ==
    LET buf     == s.sndbuf
        escaped == IsEscaped(buf)
    IN  CASE b = END /\ buf # <<>> -> [sndbuf |-> <<>>, sent |-> Append(s.sent, buf)]
          [] b = END /\ buf = <<>> -> s
          [] b = ESC_END /\ escaped -> [s EXCEPT !.sndbuf = Append(Front(buf), END)]
          [] b = ESC_ESC /\ escaped -> [s EXCEPT !.sndbuf = Append(Front(buf), ESC)]
          [] OTHER -> [s EXCEPT !.sndbuf = Append(buf, b)]

\* The packets that write_data has sent once it got all of these bytes.
Sent(bytes) == FoldLeft(WriteData, Empty, bytes).sent

\* RFC 1055's receiver, which a guest runs: an ESC is not part of the packet,
\* but changes the meaning of the byte that follows it.
Receive(s, b) ==
    CASE s.escaped -> [s EXCEPT !.escaped = FALSE,
                                !.packet = Append(@, IF b = ESC_END THEN END ELSE ESC)]
      [] b = ESC /\ ~s.escaped -> [s EXCEPT !.escaped = TRUE]
      [] b = END /\ ~s.escaped -> [s EXCEPT !.packet = <<>>, !.packets = Append(@, s.packet)]
      [] OTHER -> [s EXCEPT !.packet = Append(@, b)]

Received(bytes) ==
    FoldLeft(Receive, [escaped |-> FALSE, packet |-> <<>>, packets |-> <<>>], bytes).packets

\* write_data takes a byte ESC it has just resolved for the start of an escape,
\* if the next byte looks like the end of one: such packets arrive changed.
Ambiguous(packet) ==
    \E i \in 1 .. Len(packet) - 1 :
        packet[i] = ESC /\ packet[i + 1] \in {ESC_END, ESC_ESC}
-----------------------------------------------------------------------------
EncodeAll(packets) == [i \in DOMAIN packets |-> Encode(packets[i])]

\* All bytes of the run in each direction, wherever they are now.
BytesIn == read \o rx_fifo \o rxbyte \o left \o FlattenSeq(input)
BytesOut == written \o txbyte \o tx_fifo \o output

(* The guest decodes the packets of the tun device, in their order and whole,
   however the threads, the queues and the interrupt cut them up. *)
PacketsComeIn ==
    \E ps \in {p.in : p \in Packets} :
        /\ BytesIn = FlattenSeq(EncodeAll(ps))
        /\ IsPrefix(Received(read), ps)
        /\ read = BytesIn => Received(read) = ps

\* write_data sends no packet for an END that comes first.
NotEmpty(packets) == SelectSeq(packets, LAMBDA p : p # <<>>)

(* The tun device gets the packets the guest sends, in their order and whole,
   unless one of them is ambiguous for write_data. *)
PacketsGoOut ==
    \E ps \in {p.out : p \in Packets} :
        /\ BytesOut = FlattenSeq(EncodeAll(ps))
        /\ (\A i \in DOMAIN ps : ~Ambiguous(ps[i])) =>
              /\ IsPrefix(Sent(written), NotEmpty(ps))
              /\ written = BytesOut => Sent(written) = NotEmpty(ps)

(* SLIP and the UART deliver the packets of both directions, in order and whole
   (rxHandler and handle in slip.cpp over the queues of abstract_uart.cpp). *)
PacketsArrive == PacketsComeIn /\ PacketsGoOut
-----------------------------------------------------------------------------
(* The instance of the run: two packets with the bytes that SLIP escapes come in, or go
   out around an empty one, more bytes than the queues have room for; or a packet goes
   out while an empty one comes in. *)
MCBytes == {END, ESC, ESC_END, ESC_ESC, "x"}

MCPackets == {[in |-> << <<"x", ESC>>, <<END>> >>, out |-> <<>>],
              [in |-> <<>>, out |-> << <<ESC>>, <<>>, <<END>> >>],
              [in |-> << <<>> >>, out |-> << <<"x">> >>]}

MCTraffic == {[in |-> EncodeAll(p.in), out |-> FlattenSeq(EncodeAll(p.out))] : p \in MCPackets}
=============================================================================
