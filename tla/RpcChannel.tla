----------------------------- MODULE RpcChannel -----------------------------
(***************************************************************************)
(* RpcCodec of src/codec/RpcCodec.cpp between two Buffers: messages are      *)
(* encoded into the one, its bytes reach the other in pieces, and messages    *)
(* are decoded from that. A message is its number and the length of its       *)
(* payload; the header is HeaderLength bytes, of which the first holds the    *)
(* length and the last the id (and the type). MaxSent bounds the messages.    *)
(***************************************************************************)
EXTENDS Buffer

CONSTANTS
    HeaderLength,       \* kHeaderLength
    MaxMessageLength,   \* kMaxMessageLength
    Payloads,           \* lengths of payloads
    MaxSent

ASSUME HeaderAssumption == HeaderLength \in Nat \ {0, 1}
ASSUME PayloadsAssumption ==
    MaxMessageLength \in Nat /\ Payloads \subseteq Nat /\ MaxSent \in Nat

VARIABLES
    out, in,    \* the buffers
    sent, got,  \* messages encoded and decoded
    refused     \* decode has returned kError

channelVars == <<out, in, sent, got, refused>>

ChannelInit ==
    /\ out = NewBuffer /\ in = NewBuffer
    /\ sent = <<>> /\ got = <<>>
    /\ refused = FALSE

Frame(m) ==
    <<<<"length", m.length>>>> \o [i \in 1 .. HeaderLength - 2 |-> <<"header", m.id>>]
        \o <<<<"id", m.id>>>> \o [i \in 1 .. m.length |-> <<"payload", m.id>>]

\* encode: the length of the payload is not looked at.
Encode ==
    /\ Len(sent) < MaxSent
    /\ \E length \in Payloads :
          LET m == [id |-> Len(sent) + 1, length |-> length] IN
          /\ out' = Write(EnsureWritable(out, Len(Frame(m))), Frame(m))
          /\ sent' = Append(sent, m)
    /\ UNCHANGED <<in, got, refused>>

\* Some bytes arrive: the connection takes them from the one buffer and appends
\* them to the other.
Transfer ==
    /\ \E n \in 1 .. Readable(out) :
          /\ in' = Append_(in, SubSeq(Content(out), 1, n))
          /\ out' = Retrieve(out, n)
    /\ UNCHANGED <<sent, got, refused>>

\* A slip: the header is not counted in what is taken from the buffer.
DecodeBodyOnly ==
    /\ Readable(in) >= HeaderLength
    /\ LET length == Content(in)[1][2] IN
          /\ length \in Nat
          /\ Readable(in) >= HeaderLength + length
          /\ got' = Append(got, [id |-> Content(in)[HeaderLength][2], length |-> length])
          /\ in' = Retrieve(in, length)
    /\ UNCHANGED <<out, sent, refused>>

\* decode: kError leaves the bytes where they are, kIncomplete everything.
Decode ==
    /\ Readable(in) >= HeaderLength
    /\ LET length == Content(in)[1][2] IN
          \/ /\ length > MaxMessageLength
             /\ refused' = TRUE
             /\ UNCHANGED <<in, got>>
          \/ /\ length <= MaxMessageLength
             /\ Readable(in) >= HeaderLength + length
             /\ got' = Append(got, [id     |-> Content(in)[HeaderLength][2],
                                    length |-> length])
             /\ in' = Retrieve(in, HeaderLength + length)
             /\ UNCHANGED refused
    /\ UNCHANGED <<out, sent>>

ChannelNext == Encode \/ Transfer \/ Decode
=============================================================================
