---------------------------- MODULE MCRecordLayer ----------------------------
(* Small instances of RecordLayer for TLC.                                 *)
EXTENDS RecordLayer
LOCAL INSTANCE Bitwise

MCXor(a, b) == a ^^ b

\* A KeyUpdate handshake message, two alerts, one of them an empty record, and
\* application data whose bytes include the zero that TLS 1.3 padding uses.
MCKeyUpdate == [typ |-> 22, payload |-> <<24>>]
MCCloseNotify == [typ |-> 21, payload |-> <<>>]
MCWarning == [typ |-> 21, payload |-> <<1>>]
MCMessages == {MCKeyUpdate, MCCloseNotify, MCWarning, [typ |-> 23, payload |-> <<0>>]}
MCIvs == {[fixed |-> 7, low |-> 1], [fixed |-> 7, low |-> 2]}
MCOneIv == {[fixed |-> 7, low |-> 1]}
MCOneVersion == {TLSv1_2}
MCVersions == {TLSv1_2, "TLSv1_0"}

=============================================================================
