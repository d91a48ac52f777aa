-------------------------- MODULE MCCaptureFormat ---------------------------
(* Captures of two containers for TLC, with the checksum of the code.      *)
EXTENDS CaptureFormat, Bitwise

\* CRC_CCITT_ALG: polynomial 0x1021 reflected, all ones before and after; a
\* byte at a time, from tables.
XorNibbles == [a \in 0..15, b \in 0..15 |-> a ^^ b]
XorBytes(a, b) == 16 * XorNibbles[a \div 16, b \div 16] + XorNibbles[a % 16, b % 16]

CrcByte ==
    [n \in 0..255 |->
        LET bit[i \in 0..8] ==
                IF i = 0 THEN n
                ELSE IF bit[i - 1] % 2 = 1 THEN (bit[i - 1] \div 2) ^^ 33800
                ELSE bit[i - 1] \div 2
        IN <<bit[8] % 256, bit[8] \div 256>>]

MCCrc(s) ==
    LET add(c, b) == LET t == CrcByte[XorBytes(c[1], b)] IN <<XorBytes(c[2], t[1]), t[2]>>
        c == FoldLeft(add, <<255, 255>>, s)
    IN <<255 - c[1], 255 - c[2]>>

\* The example of hdlc.rs.
ASSUME CrcAssumption == MCCrc(<<1, 2, 3, 4>>) = <<145, 57>>

\* Messages that hold each special byte, and some whose checksums do: that of
\* <<16, 101>> begins with an escape, that of <<16, 211>> ends in a terminator.
Special == {<<16, 126>>, <<16, 125, 94>>, <<16, 101>>, <<16, 211>>}
Unreadable == <<16, 1>>
MCReadable == Special

Whole(m) == [items |-> <<Ok(m)>>, rest |-> <<>>]

MCContainers ==
    {<<[items |-> <<Ok(<<16, 126>>), Ok(Unreadable)>>, rest |-> <<>>]>>,
     <<Whole(<<16, 101>>), [items |-> <<Err(<<126>>), Ok(<<16, 125, 94>>)>>, rest |-> <<>>]>>,
     <<[items |-> <<Err(<<16, 125, 126>>)>>, rest |-> <<>>], Whole(<<16, 101>>)>>,
     <<[items |-> <<Ok(<<16, 211>>)>>, rest |-> <<16, 125>>]>>,
     <<[items |-> <<>>, rest |-> <<16>>], Whole(<<16, 126>>)>>}
=============================================================================
