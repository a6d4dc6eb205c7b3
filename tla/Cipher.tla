------------------------------- MODULE Cipher -------------------------------
(***************************************************************************)
(* The XOR ciphers of both programs: c/core/cryptografy.c, which repeats   *)
(* the key cyclically, and EncryptedMessage in rust/sae/src/sae.rs, which  *)
(* pairs each byte with a key byte and refuses a key that is too short.    *)
(***************************************************************************)
EXTENDS Naturals, Sequences

CONSTANTS Byte,         \* the values of a byte; 0 is the C terminator
          Xor(_, _)     \* the ^ of both languages

ASSUME ByteAssumption == Byte \subseteq Nat /\ 0 \in Byte
ASSUME XorAssumption ==
  \A a, b \in Byte : Xor(a, b) \in Byte /\ Xor(Xor(a, b), b) = a

Bytes == Seq(Byte)

\* The position in a key of length n that covers byte i (from 1): i % key_len
\* counted from 0 in the code.
PadIndex(i, n) == ((i - 1) % n) + 1

\* encrypt_message and decrypt_message, for a key that is not empty (both
\* return NULL for an empty one; their callers test it).
encrypt_message(key, plaintext) ==
  [i \in 1..Len(plaintext) |-> Xor(plaintext[i], key[PadIndex(i, Len(key))])]

decrypt_message_shifted(ciphertext, key) ==         \* mutant: index from 1
  [i \in 1..Len(ciphertext) |-> Xor(ciphertext[i], key[(i % Len(key)) + 1])]
decrypt_message(ciphertext, key) ==
  [i \in 1..Len(ciphertext) |-> Xor(ciphertext[i], key[PadIndex(i, Len(key))])]

\* EncryptedMessage::new and EncryptedMessage::decrypt, for a key that is not
\* shorter than the bytes (both return KeyTooShort for one that is).
new(key, plaintext) ==
  [i \in 1..Len(plaintext) |-> Xor(plaintext[i], key[i])]

decrypt_reversed(ciphertext, key) ==                \* mutant: key from its end
  [i \in 1..Len(ciphertext) |-> Xor(ciphertext[i], key[Len(key) + 1 - i])]
decrypt_short(ciphertext, key) ==                   \* mutant: off by one
  [i \in 1..(Len(ciphertext) - 1) |-> Xor(ciphertext[i], key[i])]
decrypt(ciphertext, key) ==
  [i \in 1..Len(ciphertext) |-> Xor(ciphertext[i], key[i])]

\* What a C string function sees of a buffer: everything before the first 0.
strlen(text) ==
  CHOOSE n \in 0..Len(text) :
     /\ \A i \in 1..n : text[i] # 0
     /\ n = Len(text) \/ text[n + 1] = 0

CString(text) == SubSeq(text, 1, strlen(text))
=============================================================================
