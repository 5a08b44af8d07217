------------------------------- MODULE MCFrame -------------------------------
EXTENDS Frame

B(n) == <<n>>
F(bytes) == [kind |-> "frame", data |-> bytes]
Damaged(bytes, k) == [kind |-> "damaged", data |-> bytes, at |-> k]
Noise(bytes) == [kind |-> "noise", data |-> bytes]

\* Commands: 1 acknowledge, 2 write, 3 read, 4 erase, 5 resume, 9 secure.
MCMap == (1 :> "ack") @@ (2 :> "write") @@ (3 :> "read") @@ (4 :> "erase") @@ (5 :> "resume") @@ (9 :> "secure")
CmdMap == [b \in {B(n) : n \in DOMAIN MCMap} |-> MCMap[b[1]]]

\* Type 0 is all of memory; type 1 is found first in the read-only entry.
MCMemory == <<[types |-> {B(1)}, access |-> {"read"}],
              [types |-> {B(0), B(1)}, access |-> {"write", "read", "erase", "secure"}]>>
MCInfo == <<B(1), B(6)>>

Head1 == B(7)
Ok == B(8)
Err == B(6)
Empty == B(0)

Write == F(<<B(2), B(0), B(7)>>)
Read == F(<<B(3), B(0)>>)
ReadOther == F(<<B(3), B(1)>>)
WriteOther == F(<<B(2), B(1), B(5)>>)
Erase == F(<<B(4), B(0)>>)
Secure == F(<<B(9), B(0)>>)
Ack == F(<<B(1)>>)
Resume == F(<<B(5)>>)
Unknown == F(<<B(0)>>)
NoData == F(<<>>)
TooLong == F(<<B(2), B(0), B(1), B(1)>>)

MCStreams ==
    {<<Write, p, Read>> : p \in {Erase, Secure, Resume, NoData, TooLong, WriteOther, Unknown, ReadOther}}
    \cup {<<Write, Secure, p, Read>> : p \in {Erase, Write, NoData}}
    \cup {<<p, Read>> : p \in {Damaged(<<B(2), B(0), B(7)>>, k) : k \in {1, 2, 6, 7, 8}}
                            \cup {Noise(<<B(1)>>), Noise(<<Head1>>), Ack}}
    \cup {<<Noise(<<Head1, B(0)>>), Ack, Read>>}
    \cup {<<Secure, Damaged(<<B(4), B(0)>>, 7), NoData, Read>>, <<Write, F(<<B(2)>>), Read>>}
    \cup {<<p, Read, Ack>> : p \in {Damaged(<<B(3), B(2)>>, k) : k \in {5, 6, 7}}}
    \cup {<<Damaged(<<B(3), B(2)>>, 4), NoData, Read, Ack>>, <<F(<<B(3), B(2)>>), Read>>}
\* The checksum of the frame 3, 2 ends with a byte that is a head.
MCSumValues == <<"H", LengthBytes(2) \o <<B(3), B(2)>>>> :> 7
MCUserFrames == <<<<B(7), B(5)>>, <<B(1)>>>>
=============================================================================
