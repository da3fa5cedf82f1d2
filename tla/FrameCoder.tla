----------------------------- MODULE FrameCoder -----------------------------
(***************************************************************************)
(* libp2p/RLPXFrameCoder: the secrets two ends derive from their handshake, *)
(* and the frames they then write and authenticate.  Each direction has a   *)
(* cipher stream and a MAC whose state covers every frame before.  Hashes   *)
(* and ciphers are symbolic: a hash is what was hashed, an exclusive or is  *)
(* the set of what is in it, a cipher text names its key and its place in   *)
(* the stream.                                                              *)
(***************************************************************************)
EXTENDS Naturals, Sequences, FiniteSets, SequencesExt

CONSTANTS
    Payloads,      \* sizes of what is written in one frame
    c_block,       \* the cipher's block, 16 bytes
    MaxFrames,     \* bound: frames written by an end
    MaxDamages     \* bound: frames the network damages

ASSUME CoderAssumption ==
    Payloads \subseteq Nat /\ c_block \in Nat \ {0} /\ MaxDamages \in Nat

Coders == {"initiator", "recipient"}
otherCoder(end) == CHOOSE e \in Coders : e # end

VARIABLES
    coder,      \* for each end: its keys, and its place in both streams and both MACs
    onWire,       \* to each end: the frames on the way
    wrote, taken,    \* history: the payloads each end wrote, and those it took
    gone,        \* ends that found a frame that is not authentic, and left
    headerRead, \* for each end: the header it has decrypted, while it waits for the frame
    damages

coderVars == <<coder, onWire, wrote, taken, gone, headerRead, damages>>

\* A term is a tuple that begins with what made it
xor(a, b) == (a \ b) \union (b \ a)
hash(terms) == <<"hash", terms>>

-----------------------------------------------------------------------------
\* setup

nonceOf(end) == <<"nonce", end>>
cipherOf(end) == IF end = "initiator" THEN <<"auth">> ELSE <<"ack">>
ephemeralShared == <<"agreed">>

\* A plausible slip: each end puts its own nonce first
noncesOwnFirst(end) == <<nonceOf(end), nonceOf(otherCoder(end))>>

\* leftNonce, rightNonce
nonces(end) ==
    IF end = "initiator" THEN <<nonceOf(otherCoder(end)), nonceOf(end)>> ELSE <<nonceOf(end), nonceOf(otherCoder(end))>>

sharedSecret(end) == hash(<<ephemeralShared, hash(nonces(end))>>)
aesSecret(end) == hash(<<ephemeralShared, sharedSecret(end)>>)
macSecret(end) == {hash(<<ephemeralShared, aesSecret(end)>>)}

setup(end) ==
    LET egress == xor(macSecret(end), {nonceOf(otherCoder(end))})
        ingress == xor(egress, {nonceOf(otherCoder(end))} \union {nonceOf(end)})
    IN  [frameKey |-> aesSecret(end), macKey |-> macSecret(end), encAt |-> 0, decAt |-> 0,
         egressMac |-> <<<<"xor", egress>>, cipherOf(end)>>,
         ingressMac |-> <<<<"xor", ingress>>, cipherOf(otherCoder(end))>>]

FrameCoderInit ==
    /\ coder = [end \in Coders |-> setup(end)]
    /\ onWire = [end \in Coders |-> <<>>] /\ wrote = [end \in Coders |-> <<>>] /\ taken = [end \in Coders |-> <<>>]
    /\ gone = {} /\ headerRead = [end \in Coders |-> <<>>] /\ damages = 0

-----------------------------------------------------------------------------
\* updateMAC joins the MAC's encrypted digest with the header's cipher text, or
\* with the digest; the digest being a function of the MAC so far, what is new is
\* the key and what it is joined with
updateMAC(c, mac, seed) == Append(mac, <<"update", c.macKey, seed>>)

withHeader(c, mac, cipher) == updateMAC(c, mac, cipher)
withFrame(c, mac, cipher) == updateMAC(c, Append(mac, cipher), <<"digest">>)

padding(size) == (c_block - (size % c_block)) % c_block

\* The cipher stream, and what comes of it at another place or under another key
crypt(c, at, plain) == <<"cipher", c.frameKey, at, plain>>
decrypt(c, cipher) == IF cipher[2] = c.frameKey /\ cipher[3] = c.decAt THEN cipher[4] ELSE 0

\* writeFrame: the header is one block; its MAC comes before the payload is encrypted
WriteFrame(end, size) ==
    /\ end \notin gone /\ Len(wrote[end]) < MaxFrames
    /\ LET c == coder[end]
           headerCipher == crypt(c, c.encAt, size)
           mac == withHeader(c, c.egressMac, headerCipher)
           payloadCipher == crypt(c, c.encAt + c_block, Len(wrote[end]) + 1)
           macAfter == withFrame(c, mac, payloadCipher)
       IN  /\ onWire' = [onWire EXCEPT ![otherCoder(end)] =
                         Append(@, [header |-> headerCipher, headerMac |-> hash(mac),
                                    frame |-> payloadCipher, frameMac |-> hash(macAfter)])]
           /\ coder' = [coder EXCEPT ![end].egressMac = macAfter,
                                     ![end].encAt = @ + c_block + size + padding(size)]
    /\ wrote' = [wrote EXCEPT ![end] = Append(@, <<Len(@) + 1, size>>)]
    /\ UNCHANGED <<taken, gone, headerRead, damages>>

\* The network changes a header or a frame, or the MAC after it
DamageFrame(end, i, part) ==
    /\ damages < MaxDamages /\ damages' = damages + 1
    /\ onWire' = [onWire EXCEPT ![end][i][part] = <<"damaged">>]
    /\ UNCHANGED <<coder, wrote, taken, gone, headerRead>>

\* authAndDecryptHeader: the MAC is updated with what came, whatever it is
AuthAndDecryptHeader(end) ==
    /\ end \notin gone /\ headerRead[end] = <<>> /\ onWire[end] # <<>>
    /\ LET c == coder[end]
           io == onWire[end][1]
           mac == withHeader(c, c.ingressMac, io.header)
           authentic == io.headerMac = hash(mac)
       IN  /\ coder' = [coder EXCEPT ![end].ingressMac = mac, ![end].decAt = IF authentic THEN @ + c_block ELSE @]
           /\ IF authentic
              THEN headerRead' = [headerRead EXCEPT ![end] = <<decrypt(c, io.header)>>] /\ UNCHANGED gone
              ELSE gone' = gone \union {end} /\ UNCHANGED headerRead
    /\ UNCHANGED <<onWire, wrote, taken, damages>>

\* authAndDecryptFrame, on as many bytes as the header tells
AuthAndDecryptFrame(end) ==
    /\ end \notin gone /\ headerRead[end] # <<>>
    /\ LET c == coder[end]
           io == onWire[end][1]
           size == headerRead[end][1]
           mac == withFrame(c, c.ingressMac, io.frame)
           authentic == io.frameMac = hash(mac)
       IN  IF authentic
           THEN /\ taken' = [taken EXCEPT ![end] = Append(@, <<decrypt(c, io.frame), size>>)]
                /\ coder' = [coder EXCEPT ![end].ingressMac = mac, ![end].decAt = @ + size + padding(size)]
                /\ UNCHANGED gone
           ELSE /\ gone' = gone \union {end} /\ UNCHANGED taken
                /\ coder' = [coder EXCEPT ![end].ingressMac = mac]
    /\ onWire' = [onWire EXCEPT ![end] = Tail(@)] /\ headerRead' = [headerRead EXCEPT ![end] = <<>>]
    /\ UNCHANGED <<wrote, damages>>

FrameCoderNext ==
    \E end \in Coders :
         \/ AuthAndDecryptHeader(end) \/ AuthAndDecryptFrame(end)
         \/ \E size \in Payloads : WriteFrame(end, size)
         \/ \E i \in 1..Len(onWire[end]), part \in {"header", "headerMac", "frame", "frameMac"} : DamageFrame(end, i, part)

FrameCoderSpec == FrameCoderInit /\ [][FrameCoderNext]_coderVars

-----------------------------------------------------------------------------
\* What an end takes is what the other wrote, from the first on, whatever the
\* network damages; and if it damages nothing, no frame is refused.
\* Code: RLPXFrameCoder.cpp:92-147, 176-229, 269-290.
TakenAsWritten ==
    /\ \A end \in Coders : IsPrefix(taken[end], wrote[otherCoder(end)])
    /\ gone # {} => damages > 0
=============================================================================
