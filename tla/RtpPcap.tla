------------------------------- MODULE RtpPcap -------------------------------
(***************************************************************************)
(* The write loop of uac/gen_rtp_pcap.py: one pcap record per pre-encoded  *)
(* 20 ms frame, each an Ethernet/IPv4/UDP/RTP packet built by _ip, _udp    *)
(* and _rtp. A record keeps the length fields the builders compute and the *)
(* byte length of what is written; addresses, ports, the SSRC and the      *)
(* payload bytes (ULaw says what those are) are constants of the script    *)
(* and are left out. The constants are the script's own, so the check     *)
(* covers the whole 500-frame file.                                        *)
(***************************************************************************)
EXTENDS Integers, Sequences

SAMPLE_RATE   == 8000
FRAME_SAMPLES == 160
DURATION_S    == 10
FRAMES        == DURATION_S * (SAMPLE_RATE \div FRAME_SAMPLES)

\* Bytes of each part: _ETH (two MACs and the EtherType), the struct
\* formats '>BBHHHBBH4s4s', '>HHHH' and '>BBHII', and one encoded frame.
ETH_LEN == 14
IP_LEN  == 20
UDP_LEN == 8
RTP_LEN == 12

\* The total-length field of _ip(payload_len).
IpTotal(payloadLen) == 20 + 8 + payloadLen

\* The length field of _udp(payload_len).
UdpLength(payloadLen) == 8 + payloadLen

\* The record written for a frame: the length fields the loop body puts
\* into the headers and the length of the packet it writes. The RTP
\* sequence number and timestamp and the record's capture time are left
\* out: no property reads them.
Frame ==
    LET rtpLen == RTP_LEN + FRAME_SAMPLES
    IN  [ipTotal |-> IpTotal(UDP_LEN + rtpLen),
         udpLen  |-> UdpLength(rtpLen),
         inclLen |-> ETH_LEN + IP_LEN + UDP_LEN + rtpLen]

VARIABLE out    \* the pcap records written so far

\* open(OUTPUT, 'wb') and the global header; no record yet.
Init == out = <<>>

\* One iteration of the for loop over enumerate(encoded_frames).
WriteFrame ==
    /\ Len(out) < FRAMES
    /\ out' = Append(out, Frame)

Next == WriteFrame

Spec == Init /\ [][Next]_out

\* The module docstring's "Ethernet/IP/UDP/RTP frames", by RFC 791 and RFC
\* 768: in every frame written, the IP total length counts the bytes after
\* the Ethernet header and the UDP length the bytes after the IP header.
LengthsMatchFrame ==
    \A k \in 1..Len(out) :
        /\ out[k].ipTotal = out[k].inclLen - ETH_LEN
        /\ out[k].udpLen = out[k].inclLen - ETH_LEN - IP_LEN
=============================================================================
