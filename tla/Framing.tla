------------------------------ MODULE Framing ------------------------------
(***************************************************************************)
(* AES.cpp, the same in both programs, by the lengths it computes: a       *)
(* datagram is                                                             *)
(*   key(32) | iv(12) | ciphertext | tag(16) | padding(8)                  *)
(* and its plaintext a session id followed by one KCP datagram.  What      *)
(* OpenSSL does is one bit: a datagram that arrives as it was sent         *)
(* authenticates, any other does not.  (OpenSSL failing on its own is left *)
(* out; doEncrypt's callers do not look at its result.)                    *)
(***************************************************************************)
EXTENDS Integers

KEYSIZE      == 32
GCM_IV_SIZE  == 12
GCM_TAG_SIZE == 16
PADDINGSIZE  == 8

keyAndIvOffSet == KEYSIZE + GCM_IV_SIZE   \* where the session id lies
sessionIdSize  == 16

\* Bytes of the whole datagram for n bytes of plaintext; -1: refused.
encrypt(n)   == GCM_IV_SIZE + n + GCM_TAG_SIZE
doEncrypt(n) == IF n <= 0 THEN -1 ELSE KEYSIZE + encrypt(n) + PADDINGSIZE

\* Defect: the tag is not checked.
decrypt_NoTag(n, authentic) ==
  IF n < GCM_IV_SIZE + GCM_TAG_SIZE THEN -1 ELSE n - GCM_IV_SIZE - GCM_TAG_SIZE

\* Bytes of plaintext in n bytes of iv, ciphertext and tag; -1: discarded.
decrypt(n, authentic) ==
  IF n < GCM_IV_SIZE + GCM_TAG_SIZE \/ ~ authentic
    THEN -1 ELSE n - GCM_IV_SIZE - GCM_TAG_SIZE

\* The smallest datagram doDecrypt looks into, and what it finds in one of n
\* bytes.
minLen == KEYSIZE + GCM_IV_SIZE + GCM_TAG_SIZE + PADDINGSIZE
doDecrypt(n, authentic) ==
  IF n < minLen THEN -1 ELSE decrypt(n - KEYSIZE - PADDINGSIZE, authentic)
=============================================================================
