# A TLA+ model of maqueta-qkd

The repository is a demonstration of quantum key distribution. Alice reads
`lorem.txt`, encrypts it with keys that two KMEs (key management entities, run by
qukaydee.com) hand out, and sends it over TCP; Bob fetches the same keys by their
identifiers, decrypts and prints. There are two independent implementations: one
in C (`src/c`), which sends one signed message, and one in Rust (`src/rust`),
which sends the file in pieces with a key for each.

This directory holds the TLA+ modules that model both, the TLC configurations
that check them on small instances, and proofs checked by TLAPS that the
properties hold for all instances. `PROJECT.json` maps each definition to the
lines it translates.

## 1. Inventory

| Component | State it keeps | Operations | Where |
|---|---|---|---|
| Alice (C), `alice.c` | the file, the payload, the socket | read and sign, get two keys and encrypt with the first, connect (retrying), send a 4-byte length, send the payload | `Alice` |
| Bob (C), `bob.c` | listening and accepted socket, buffer, `total_read` | listen, accept, read the length, fill the buffer, parse, fetch the key, decrypt, verify, print | `Bob` |
| XOR cipher (C), `cryptografy.c` | none | `encrypt_message`, `decrypt_message`, `parse_incoming_message` | `Cipher`, `PayloadReader` |
| Payload (C), `handle_msg.c` | the buffer being printed into | `read_file`, `build_json_payload`, hexadecimal both ways | `Alice`, `PayloadWriter`, `Hex` |
| Signature (C), `sign_dilithium.c` | none | `sign`, `verify`, `randombytes` around Dilithium5 | `Alice`, `Bob` (ideal scheme) |
| KME client (C), `connection_qkd.c` | a growing block for the answer | one GET per call, pieces gathered by a callback | `KmeClient`, `KmeAnswer`; its outcome in `Alice`, `Bob` |
| JSON fields (C), `handle_json.c` | none | `extract_first_key_field`: parse, look up, copy, delete the tree | `JsonFields`; twice in a row in `KmeAnswer` |
| cJSON | the text and an offset into it, nodes, strings | `cJSON_Parse` and all it calls, array and object look-ups, `cJSON_Delete` (the rest is called by nobody) | `ParseBuffer`, `JsonNodes`, `JsonString`, `JsonParser`, `JsonAccess` |
| Sender and receiver (Rust), `sae.rs` | file reader, piece buffer, key queue, sockets | `sae_2` reads, refills the queue, encrypts, writes frames; `sae_1` reads frames, fetches keys, decrypts, prints | `Sae2`, `Sae1` |
| KME client (Rust), `qukaydee.rs` | none | `get_keys_and_id`, `get_key_from_id`, URL and certificates from the environment | `Sae2`, `Sae1` |
| Entry point (Rust), `main.rs` | none | dispatch on `SAE_ID` | `Sae1Start`, `Sae2Start` |
| KMEs, TCP | keys issued and collected; the stream | outside the repository, as the code uses them | `Kme`, `Tcp` |
| Deployment files | - | one start of each container, no restart | not modelled; gives the initial states |

How they interact. The two programs share only the TCP stream (Alice writes, Bob
reads) and, through HTTPS, the KMEs: a key is issued to Alice's SAE for Bob's and
can be collected once by Bob's, under the identifier that travels in Alice's
message. There are no threads and no callbacks other than curl's; the
concurrency is between two processes, the network and the KMEs.

What is hard here:

- a stream that is cut anywhere, while one side treats short reads as fatal (Bob's
  length), as the end (Rust's length) or as nothing (Bob's payload loop leaves with
  a partly filled buffer and carries on);
- errors nobody looks at: `send`, `bind`, `accept`, `fopen`, the status of an HTTP answer;
- keys that are consumed at the KME by a request whose answer is then lost, and
  requests without a timeout, which a silent KME leaves open for ever;
- a recursive parser that allocates at every level and must give back, on any
  failure, exactly what it holds; strings sized in one pass and written in another;
- one answer parsed twice, for two fields that only make sense together;
- one-time use of keys across queue refills, skipped items and short keys;
- lengths: C strings against byte counts, the buffer of the payload, the public
  key printed with the signature's length, a piece of the file shorter than the
  buffer, characters cut between pieces.

What makes each component correct, and the property that says so:

| Component | Correct means | Property |
|---|---|---|
| Alice and Bob | only what Alice signed is shown as verified | `VerifiedIsTheFile` |
| | a run without failures ends with the file verified | `HonestRunVerifies`, `HonestDelivery` |
| | no two wait for each other, and what goes over an open connection ends | `NobodyIsStuck`, `StepsRunOut` |
| | so nobody waits for ever for a program that could go on | `EndsOrWaitsInVain` |
| | together: a transfer that settles once | `ImplementsTransfer` of `SignedTransfer` |
| sae_2 and sae_1 | a key covers one piece | `OneTimeKeys` |
| | printed pieces follow the file | `PrintedInFileOrder` |
| | Bob's KME gives out no key that was not used | `CollectedKeysWereUsed` |
| | neither waits for the other while it could go on, and the loops over file and frames end | `NobodyIsStuck`, `StepsRunOut`, `EndsOrWaitsInVain` |
| | together: pieces come out once, whole, in order | `ImplementsTransfer` of `ChunkTransfer` |
| Payload text | the computed size is enough | `NothingTruncated` |
| | the parser stays in the array | `PointersStayInArray` |
| | Bob reads the bytes Alice printed | `ArrivedBytesAreRead` |
| KME client (C) | an answer is returned whole or not at all | `WholeOrNothing` |
| | its block is returned or freed, once | `BlockHasOneOwner` |
| | what the KME sent is found in it, by both look-ups | `NothingMissed` |
| | the look-ups leave nothing behind but their copies | `OnlyCopiesLeft` |
| | together with `get_key`, `get_key_id`: one request, settled once unless the KME stays silent | `ImplementsRequest` of `KeyRequest` |
| | in a number of steps linear in the answer | `AnswerStepsRunOut` |
| cJSON | nothing is written beyond an allocation, nothing read beyond the text | `OutputFits`, `ReadsStayInText` |
| | the depth counted is the depth of the recursion | `DepthIsNesting` |
| | every node and every string has one owner at any moment | `NodesHaveOneOwner`, `StringsHaveOneOwner` |
| | siblings are linked both ways, in the order of the text | `SiblingsLinked` |
| | it accepts what the grammar spells, with that meaning, and nothing else | `ParsesWhatIsSpelled` |
| | it ends, after three steps for each byte at most | `Terminates`, `StepsRunOut` |
| JSON fields (C) | the first key's field, or NULL; a copy, and no tree is left | `FirstKeysField`, `StringsHaveOneOwner` |

## 2. Modules

```
 Faults ── Tcp ──┬── Alice ── Bob ── AliceBob ── MCAliceBob     PayloadWriter ── PayloadReader
 Cipher ── Kme ──┤                      │ implements                       │
                 │                 SignedTransfer                     PayloadText ── MCPayloadText
                 └── Sae2 ── Sae1 ── SaePair ── MCSaePair       Hex
                                        │ implements
                                   ChunkTransfer

 ParseBuffer ──┬── JsonString ── JsonParser ── JsonFields ── JsonMeaning ── MCJsonText
 Hex ──────────┤                                │  │
 JsonNodes ────┴── JsonAccess ──────────────────┘  │
                                KmeClient ── KmeAnswer ── KmeRequest ── MCKmeClient
                                                              │ implements
                                                          KeyRequest
```

Each program is one module with one action per step of its `main`: what lies
between two points at which it touches the socket or a KME is a single action,
because nothing else can observe the inside of it. Program counters (`aPc`, `bPc`,
`cPc`, `sPc`) name the point. Every early return is a disjunct that moves to an
exit state and closes the sockets.

**Faults.** `Fault` spends one of `MaxFaults` environment failures, `NoFault`
none. A failure is a disjunct of the action it strikes (a request refused before
or after it was served, an allocation that fails, a missing variable), or an
action of its own (`AliceKilled`, `BobKilled`, `Reset`). The counter is there so
that a property can say "in a run in which nothing failed".

**Tcp.** The stream is counted, not stored: the first `sent` units were accepted
from the client, the first `arrived` reached the server, the first `taken` were
read. `Arrive` moves a segment of any size (at least `MinSegment`, or all that is
in flight), `Reset` discards what had not arrived. A unit is a byte for the C
programs and a `write_all` for the Rust ones, whose reads are `read_exact` and
cannot stop inside one without failing. Nothing is duplicated or reordered: TCP.
The kernels hold at most `Window` units between the two; a writer that finds them
full waits (`Push`), so a receiver that stops reading stops the sender.

**Cipher, Kme.** XOR is a constant operator assumed to undo itself. The C cipher
wraps the key (`PadIndex` is `i % key_len`), the Rust one refuses a key that is
too short. `Kme` records for each key who asked and for whom, and which were
collected; a caller is known by its certificate and names its peer in the URL, so
`URL_GETKEY`, `URL_GETKEYBYID` and `other_sae` carry the pairing of the two demos.

**Alice, Bob.** The payload is a record of the JSON's five fields. `sign` is an
ideal signature (the triple that was signed); `verify` takes the text as a C
string, as the code does. When the stream ends early, Bob's buffer reads either
as something that is not JSON or as one of `Damaged(payload)`. That is derived from
where the cut falls: the fields before it are Alice's, those behind it whatever
memory held; the ciphertext is the last field and may be cut behind any of its
numbers, so that it reads as a beginning of Alice's with some of the bytes `Remains`
after it. A send() that finds the kernels full waits, a refused `connect` is retried:
the first is a step that is not enabled, the second changes nothing and is no step. `PkBytes` and `SigBytes` keep
the two lengths whose confusion the code contains.

**Sae2, Sae1.** `reads` is a history variable: where in the file each read began
and how many bytes it returned, which the code forgets. `Fill` models the
`BufReader`: a read returns what is left of the read-ahead, so short reads also
happen in the middle of a file. `Picks` is the order-preserving choice of items a
KME's answer may yield when some lack a field. The future returned by
`get_status` is never awaited, so no request is made and no action exists.

**PayloadWriter, PayloadReader, PayloadText.** The same payload as characters
(ASCII codes): `build_json_payload` with the room and return value of `snprintf`,
and `parse_incoming_message` with its two passes and `strtol` (spaces, sign,
digits, saturation at `LongMax`, truncation to a byte). `Deliver` is Bob's read
loop: a prefix of the text, then what memory held, then the terminator. The
reader is run on every such buffer, also on those `get_key_id` would have refused
before, so what is shown of it does not lean on the JSON parser. Bob and Alice
use the outcome (the ciphertext, whole or damaged) without the characters.

**KmeClient.** `connection_qkd` with the block it grows. `Unset` is what a byte
from `malloc` may hold. `curl_easy_perform` takes a piece (`PerformPiece`), ends
(`PerformEnds`) or, since no timeout is set, never does (`PerformHangs`), before the
first piece or between two.

**ParseBuffer, JsonNodes, JsonString, JsonParser.** `cJSON_Parse`. The text is a
sequence of bytes and `offset` an index into it, which is all `parse_buffer` is. The
heap is a function from the nodes in use to their pointers; `cJSON_Delete` removes
what `next` and `child` reach. The recursion of `parse_value`, `parse_array` and
`parse_object` is a stack with an entry for each call (its node, the list so far,
array or object), and an action is what one of these functions does between two calls:
open a list, attach an element, parse a name, a literal, a number or a string, close
the list, or unwind one call of a failed parse. Every `malloc` is a disjunct that may
fail (`refused` remembers that one did). `parse_string` has its two passes: the one
that counts escapes to size the output, and the one that decodes, surrogate pairs and
UTF-8 included. Of allocated strings the model keeps the number; the flags `ref` and
`const` say which of its two strings a node owns. Numbers are the extent `strtod`
accepts; their value is not used by the program.

**JsonAccess, JsonFields.** The look-ups, and `extract_first_key_field` as what it
makes of the tree: `keys`, its first item, the field, the copy, the deletion.

**JsonMeaning.** The reference the parser is compared with: the grammar written as
what a text spells (cut at every comma and colon, the pieces spell something
themselves), without offset, stack or nodes. It is recursive, and so is used only
in runs.

**KmeAnswer, KmeRequest.** The composition `alice.c:74-80` makes: the pieces of
`KmeClient` (by INSTANCE) arrive, then `get_key` and `get_key_id` each run the whole
of `JsonFields` (which `KmeAnswer` extends) on the block as a C string, up to its first
zero byte. The heap and the count of strings go from one call to the next as they
are, so what the first leaves behind is there when the second begins; before the first
the parser's variables are those of an empty text nobody parses. `KmeRequest` adds what
refers to the grammar: `NothingMissed` and the refinement.

**Hex.** The two conversions as functions.

### Abstract specifications

`SignedTransfer` (text, stage, output): offered, then accepted with exactly the
text, or refused with nothing. `ChunkTransfer` (source, delivered, going): pieces
are produced, delivered in order once, until the receiver stops. `KeyRequest`
(answer, outcome): pending, then settled once with a key and an identifier of one
and the same answer, or with neither, or the KME stays silent; one of these
happens, and nothing after it. The refinement mappings are
in `AliceBob` (`Outcome`, from the verdict and Bob's exit), `SaePair` (`PlainLog`:
the source is what the frames written so far decrypt to) and `KmeRequest`
(`Outcome`: the two fields decoded, once both look-ups returned, or `NoReply`; `PairsIn` is what
`JsonMeaning` finds in the body as it left the KME).

## 3. What TLC checks

| Run | Bounds | Distinct states | Shows |
|---|---|---|---|
| `ab_faults` | 4 files, 2 keys, 2 failures, a payload of 7 bytes, segments from 1 byte, a window of 5 bytes | 34858 | only the file is ever verified; Bob settles once; nobody waits for who could go on; sends and reads use themselves up; no deadlock |
| `ab_honest` | no failure, header in one segment | 300 | the file is verified, always and eventually; no deadlock |
| `sae_faults` | 5 files of up to 2½ pieces, 6 keys of which one is short, 2 failures, a window of 3 writes | 16270 | one-time keys, order, refinement; nobody waits for who could go on; the loops over file and frames use themselves up; no deadlock |
| `sae_honest` | no failure, all keys long enough | 366 | everything is printed; no deadlock |
| `payload_text` | ciphertexts of up to 4 bytes with 1 to 3 digits, every cut, up to 2 stray characters of 6 kinds | 250999 | sizes, pointers and round trip |
| `kme_client` | 11 answers (whole, cut, with a zero inside, without a field, the fields in two keys, no JSON), every division into pieces, a KME that falls silent anywhere | 7958 | whole or nothing, no block lost; the two look-ups settle a request with one pair or none unless the KME stays silent, in a number of steps linear in the answer |
| `json_text` | 6 nodes, nesting limit 3; an answer with one lexeme wrong, missing or too many, or cut; all texts of 3 lexemes; strings of 3 pieces; with and without a terminator; any allocation refused | 463385 | memory, ownership, agreement with the grammar, termination |
| `ab_binary`, `ab_split_header`, `ab_pk`, `sae_stale_tail`, `sae_utf8` | one small instance each | | a disagreement with the code's own documentation, see below |

Why the bounds are enough. Bytes have two bits: 0 is the C terminator, and the
others suffice for XOR to be a group and for a wrong byte to show. Files are
empty, shorter than a key, as long and longer, so the key wraps once, and shorter
and longer than a piece with a remainder, so a short read happens at the end and,
with a read-ahead of 3, in the middle. The payload is 7 units in `ab_faults`: more
than the window, and enough for a cut before, inside and after it. `Remains` is nothing,
a byte, or two with a zero. Two failures allow one on each
side or one on top of another; each single failure ends or stalls at least one
program, so a third can strike only what is already ending. Three keys per request and six
keys allow a refill, a refill with a gap and a link that runs out. In
`payload_text` the allowance `Room` is 68, the least for which the size is enough,
where the code has 250: with slack a mistake of up to 182 characters would pass.
`LongMax` is 1023, so three characters already saturate as 20 digits do in the
code. A window of 5 bytes holds the header and one byte, so Alice blocks again
and again inside her payload; one of 3 writes holds a frame and a half, so `sae_2`
blocks now at one of its writes, now at the other.

In `json_text` six nodes are enough for every answer and for one with an element too
many; an allocation beyond them is refused, as any may be. The limit of 3 is reached
and passed by texts of 6 and 8 brackets (the code's is 1000, and only the comparison
knows it). One wrong lexeme in an otherwise good answer reaches every failure exit of
the parser with a partial tree in hand; texts of three arbitrary lexemes cover the
short ones. Three pieces make an escape, a pair of surrogates and something after it.
Lexemes include a number that ends in an exponent, a lone minus, a quote that opens
nothing, and a name with a zero in it. The proofs below hold without these bounds.

Fairness. `FairSpec` makes weakly fair the steps of each program, because a process
that can run does, and `Arrive`, because the kernel keeps transmitting. Nothing that
fails is fair: neither kills, resets nor failures have to happen. A KME that stays
silent is one of the failures: no timeout is set in either demo, so the program that
asked stays where it is (`"unanswered"`, in `KmeClient` as well). `connect` retried after a refusal is no
step, so a peer that never listens leaves Alice waiting, as in the code.
`EndsOrWaitsInVain` says which waits are allowed to last: for a silent KME; Alice's for
a Bob who does not listen (his `bind` failed, or he is gone); Bob's in `accept` for an Alice who is gone or
waits in vain herself; in the Rust demo, where keys are asked for during the transfer,
also a reader's for a sender without an answer and a writer's, behind a full window,
for such a receiver. Without any one of these the property fails. A state where all
that is left are such waits is where `Over` stutters; any other state without a step is
a deadlock, which every run of the demos checks. `HonestDelivery` starts from the
initial state.

Behind `EndsOrWaitsInVain` are two properties that do not mention fairness, and which
are proved below. `NobodyIsStuck`: in every state Alice, Bob or a segment can go on, or
both programs rest. `AliceCanGoOn` and its like list the conditions under which a
program's fair action is enabled, so that no proof needs ENABLED; where one of them
promised a step that its guards do not allow, the run would end in a deadlock once the
others are through, and TLC would report it. `StepsRunOut`: every step that
is not a stutter, a failure included, makes the natural number `StepsLeft` smaller, so
that no run is longer than what it begins with. It is about what changes the state: an
attempt to connect that is refused (`alice.c:30`, `sae.rs:189`) closes its socket and
changes nothing, so neither of the two loops around `connect` is bounded by this, and
where nobody ever listens they do go on without end, which is one of the waits
`EndsOrWaitsInVain` lists. Here a byte that has been written is still to be carried and to
be read, a byte of the file has a whole turn of sae_2's loop before it, and a byte of a
JSON text is to be looked at three times at most.

The parser and `connection_qkd` are sequential code, whose next step is fair. That curl
stays in `curl_easy_perform` is such a step, `PerformHangs`: nothing in the model makes
a KME answer, and `KeyRequest` promises only that a request is settled or left
unanswered.

### Disagreements with the documentation

Each is a run whose property TLC finds violated; `PROJECT.json` quotes the lines.

- `ab_binary`: the file is signed with its length, but verified up to its first zero
  byte (`strlen`, `sign_dilithium.c:69`).
- `ab_split_header`: Bob reads the length with one `read` and gives up when it
  comes in two segments (`bob.c:39`).
- `ab_pk`: the public key is printed with the signature's length
  (`handle_msg.c:73`), beyond its allocation.
- `sae_stale_tail`: a short read is sent with the rest of the buffer as it was
  (`sae.rs:134`), so the printed text is not the file.
- `sae_utf8`: a character that spans two pieces makes the receiver panic
  (`sae.rs:174`).

Two more need no run. The README promises a one-time pad, and `PadIndex` is
`i % key_len` (`cryptografy.c:34`): over a file longer than the key, as `lorem.txt`
is, the key repeats. And `parse_hex4` returns 0 for what is no hexadecimal number,
which its caller cannot tell from `\u0000`: `"\uZZZZ"` is read as a zero byte where the
grammar has no such string. `JsonMeaning` sets such texts apart (`BadLiteral`)
and promises nothing about them.

## 4. What is proved

Constants are assumed only what their modules state: bytes are naturals with 0
among them, XOR undoes itself, what unwritten memory holds is bytes, keys are non-empty, lengths are positive, Alice's
link has two keys, the kernels hold at least the four bytes of her header, `Room` is at least 68, a string is not where `NULL` points, answers
are sequences of bytes 0 to 255, and the two names looked up are among the names. How many failures there are, which files
and keys, how the stream is cut and how large the window is are arbitrary.

| Module | Theorem | Argument |
|---|---|---|
| `EnvProofs` | `EncryptionRoundTrip`: decrypting undoes encrypting | pointwise; both index the key alike |
| `AliceBobProofs` | `TypeCorrect`, `VerifiedIsAlwaysTheFile` | `SafetyInv` |
| | `HonestRunAlwaysVerifies` | `HonestInv`, under `HonestSetting` |
| | `DemoImplementsTransfer` | `SafetyInv` and `OrderInv`, step by step |
| | `NobodyIsEverStuck`, `DemoStepsRunOut` | `StreamInv`, beside `SafetyInv` |
| | `HonestRunRestsVerified` | the same, with `HonestInv`, under `HonestSetting` |
| `SaePairProofs` | `TypeCorrect`, `KeysAreOneTime`, `CollectedKeysAreUsed`, `PrintedFollowsTheFile` | `SafetyInv` |
| | `HonestRunsPrintAll` | `HonestInv`, under `HonestSetting` |
| | `PairImplementsTransfer` | what a step does to `PlainLog` |
| | `NobodyIsEverStuck`, `DemoStepsRunOut` | `StreamInv`, beside `SafetyInv` |
| | `HonestRunRestsPrinted` | the same, with `HonestInv`, under `HonestSetting` |
| `PayloadProofs` | `BufferIsLargeEnough`, `ReaderStaysInArray`, `HexRoundTrip` | `WriterInv`, `ReaderInv`, pointwise |
| | `WhatArrivedIsRead`, `PayloadTypes` | `PayloadInv` |
| `KmeClientProofs` | `TypeCorrect`, `AnswerIsWholeOrNothing`, `NoBlockIsLost` | `ClientInv` |
| | `LookUpsAreSafe`, `OnlyCopiesAreLeft` | `AnswerInv`: `ClientInv` and, for the running look-up, `CallInv` |
| | `AnswerIsUsedUp` | `RoomInv`, beside `AnswerInv` |
| `JsonParserProofs` | `ParserTypes`, `OutputAlwaysFits`, `ReadsAlwaysStay`, `DepthIsAlwaysNesting` | `IInv`: types, control, strings |
| | `ParserStepsRunOut` | `EdgeInv`, beside `IInv` |
| `JsonNodeProofs` | `EveryNodeHasOneOwner`, `NoNodeIsLeft` | `OwnInv`, beside `IInv` |
| `JsonListProofs` | `ListsAreLinkedBothWays`, `FieldsTypes` | `ListInv`, beside `IInv` and `OwnInv` |
| | `EveryStringHasOneOwner`, `OnlyTheCopyIsLeft` | `OwnedStrings`, beside the same |

`EnvProofs` also collects the lemmas on `Faults`, `Tcp` and `Kme` that both demos use.

*C demo, safety.* "Verified is the file" is not inductive: it needs that any
signature Bob may hold is either Alice's signature of the file or none. That is
`SignatureIsOfTheFile`, which `Damaged` preserves because it never invents a
signature. `NoKeyBeforeAsking` ties Alice's counter to the KME's.

*C demo, honest runs.* `HonestInv` describes, for each pair of program counters, the
bytes sent, arrived and taken and the link's state (`AliceProgress`,
`BobProgress`), and that the key named by the payload is waiting at Bob's KME
(`KeyIsForBob`). `HonestSetting` is what the runs `ab_binary` and
`ab_split_header` show to be needed: no file with a zero byte, and a first
segment that carries the header; and that a signature is longer than a public
key, so that Bob finds the whole key in the field `ab_pk` is about.

*C demo, refinement.* `OrderInv` says that Bob cannot have settled on a payload
that was not offered.

*C demo, progress.* `NobodyIsStuck` needs to know what each program counter says about
the stream. `StreamInv` is that: until she connects Alice has sent nothing and there is
no link; while she writes it is open or reset (`AlicesEnd`); a link is open only while
Bob is there to read it, and he has read four bytes more than his loop counts, or, once he
has left it with the link still open, all of them (`BobsEnd`). A full window then means
that something is under way or waits for Bob, and an empty one that Alice is not
through. For this the window must hold the header, which `send` takes whole:
`HeaderAssumption` was found by the proof that failed without it. `StepsLeft`
is the places left in the two programs and the connection, and for each byte not yet
written three: to be written, carried, read. There is a lemma for each program's step
and one for the network's, which all reduce to what a step does to the wire
(`WireStepsLeft`). At its start it is 15 + 3 * (`HeaderLen` + `PayloadLen`), so no run
has more steps, the failing ones included (refused attempts to connect are none). `HonestRunRestsVerified`: where
nothing failed and nobody can go on, the file is verified, because by `HonestInv` the
only waits `NobodyIsStuck` leaves belong to runs with a failure.

*Rust demo.* `KeyOrder`: the identifiers in the log followed by those in the queue
are strictly increasing and were issued; hence one-time keys. `Framing`: with each
program counter goes the parity of the units sent and read, so the body just read
is the second unit of a frame that is in the log. `Contents`: `reads` and `log`
advance together, the reads tile the file, and the i-th ciphertext decrypts to a
buffer that begins with the i-th read. Together they give the order of what is
printed and, with `CollectedKeysWereUsed`, which is inductive only beside `Framing`,
the last property.

*Rust demo, honest runs.* `HonestInv` says that sae_2 has given up nowhere, that the
stream is what its messages need, that every key issued was used or waits in the
queue, and that sae_1 has collected exactly the keys of what it printed. sae_1 then
finds the end of the stream only between frames and after the last of them: in the
middle of one the parity of `Framing` would be broken. `HonestSetting` asks for keys
as long as the buffer, for `Len(file) + KEYS_PER_REQUEST - 1` of them (a read may
return one byte), and for pieces that are text: the run `sae_utf8` shows that the
last does not come for nothing.

*Rust demo, progress.* `StreamInv` is shorter here, since reads and writes are whole units
and `SafetyInv` already counts them. In `StepsLeft` a byte of the file weighs
eleven, which is what one turn of sae_2's loop may cost: a request, an encryption, two
writes, each of which is carried and read, and sae_1's handling of the message. A read
returns a byte at least, so the turn is paid for however short it is. No run has more
than 12 + 11 * Len(file) steps, refused attempts to connect not counted.

*Payload.* `WriterInv`: after i bytes at most `PrefixLen + FieldsLen + 4 * i`
characters were printed. `ReaderInv`: the buffer is terminated, and no bracket or
terminator lies before either pointer; a run of characters ends in the buffer
because the terminator is in none of the scanned sets.

*Payload, round trip.* `ArrivedBytesAreRead` needs to know where every number stands
in the text, on both sides of the connection. `PrintedInv` says that there are places
`at[1]`, `at[2]`, ... (`Placed`) with the digits of a byte at each (`Spelled`), a comma
behind each but the last (`Separated`) and no other comma (`NoOtherComma`), and that
the array is closed behind them and nowhere before (`Closed`). `DeliveredInv`: the
buffer begins with what was printed. `CountInv`: behind the counting loop `count` is
one more than the commas passed; as many commas were printed as there are bytes but
one, which is counted by a bijection between places and commas
(the pigeonhole theorem, in both directions: `AtMost`, `AtLeast`). `ReadingInv`: the
converting loop has read the first `i` bytes and its pointer is where the next one
stands. That `strtol` gives back what `%d` printed is a lemma about the recursive
function `Number` at one, two and three digits (`DecimalIsRead`).

*KME client.* `ClientInv`: the block holds the first `received` bytes of the answer
and a terminator. The two look-ups behind it are two calls of
`extract_first_key_field` on one heap, and what is shown of a call must not presume
that it is the first: `CallInv(kept)` is the whole invariant of the parser, its nodes,
lists and strings, with `kept` strings in use that belong to somebody else. A call that
returns leaves no node, and `kept` strings or one more (`CallLeaves`); the next begins
in a state that satisfies `CallInv` again, with that copy among the kept (`CallAfterCall`).
`AnswerInv` says that the kept strings are the copies already in `found` (`Copied`),
and that the text of a call is a block that was returned (`FoundInv`). So all that is
shown of one call holds in both (`LookUpsAreSafe`), and behind them the copies are all
that is left.

*KME client, progress.* `AnswerStepsLeft` adds what is left to gather, where each piece
brings a byte, and the two look-ups, of which the running one has the `StepsLeft` of the
parser and one that is still to come 3 * Len(body) + 17, for a block may be a byte longer
than the answer (`RoomInv`). So a request takes at most 7 * Len(body) + 38 steps from the
first allocation to the second field.

*Parser, memory of the text.* `IInv` is `ParserTypeOK`, `ControlInv` and `StringInv`.
`ControlInv` relates the offset to what has been checked at each program counter:
it is in the text, on a byte of it where one is read without asking; and depth and
stack grow and shrink together until a failure unwinds them. `StringInv` is the
counting argument: the first pass found the closing quote and counted the escapes
before it, and the room is the length of the literal less that count. The two passes
need not agree on where the escapes are, because a `\u` takes six bytes, of which
some may be backslashes, and the last escape may even end on the closing quote
(the second case of `Fits`). So the count is compared at every position: it grows
by one in two bytes at most (`Counts`), and what is written never exceeds what was
read less the escapes among it; no escape decodes to more bytes than it takes less
the number the first pass can have counted in it.

*Parser, progress.* No step goes back in the text, with one exception: the
two passes of `parse_string` each go over a literal that the offset has not passed yet.
So `StepsLeft` counts three for each byte behind the offset, takes off what each pass
has looked at, and adds the calls that a failure would still unwind; a string or a
bracket that is accepted moves the offset far enough to pay for what comes next
(`StepsDown`, `StringRunsDown`, `CallsStepDown`). What it starts with, 3 * Len(content)
+ 9, is linear in the text however deep it nests.

*Parser, nodes.* `NodesHaveOneOwner` is not inductive. `OwnInv` says that the nodes in
use are a forest over the roots a running function holds: the tree to be returned, and
the head of the list of each call on the stack. `Forest` says that the owned sets
cover the heap, that no two pointers meet in a node, and that none points at a root;
`Filling` says that the node being filled is the last of the innermost list and has no
child yet. A step of the parser that moves a pointer does one of four things to a
forest: it adds a root, appends a node to a list, hangs a list below a node, or drops
a list. There is a lemma for each (`NodeAdded`, `NodeAppended`, `ListHung`,
`DeletedTree`); what is reached from a root is the least set closed under the pointers
(`OwnedIsLeast`), so that no induction is needed. `NoNodeIsLeft` follows: when
`extract_first_key_field` returns, no root is held.

*Parser, lists.* `SiblingsLinked` speaks of the last item of a list that is defined by
walking it. `ListInv` says without a walk that every successor points back
(`BackLinked`), that the head of each list that hangs below a node has its end
(`EndsIn`) as predecessor, and that the call that fills a list knows its end
(`Building`). `EndsIn(h, c, t)` is a set-theoretic way to say that t is the end of the
list from c: t has no successor and is in every set that holds c and the successors
of its members. A walk over a finite heap in which no two nodes have one successor
repeats nothing and so reaches that end (`WalkEnds`); the rest is what each step does
to a list (`OtherEnds`, `GrownEnd`, `LoneEnd`, `LeftLists`).

*Parser, strings.* `StringsOf` is a sum over the nodes of the heap. Its value is
reduced to partial sums (`Sums`, `StringsStep`), from which one gets that it is a
natural number, splits over disjoint sets and depends on the strings of the nodes
only (`StringsNat`, `StringsSplit`, `StringsSame`). `OwnedStrings` adds to
`StringsHaveOneOwner` that the node a string is about to be given to has none yet,
which is what makes the count go up by one and not stay.

Recursive functions can be proved about, then, where a property of their least
counterexample is a statement about sets (`EveryNatural`, `SmallestSet`); recursive
operators cannot. What stays with TLC, and why:

- `EndsOrWaitsInVain`, `HonestDelivery`, `Terminates` and the last conjunct of
  `KeyRequest` speak of fairness, hence of ENABLED, which TLAPS does not reason about.
  What they need beside it is proved: that steps run out, and that where nobody can go
  on nobody should. Missing is only that a program that can take its next step takes it,
  and that the operators ending in `CanGoOn` are when it can. The same holds of
  deadlock.
- `ParsesWhatIsSpelled`, `FirstKeysField`, `NothingMissed` and `ImplementsRequest` refer
  to the grammar in `JsonMeaning`, a recursive operator, and agreement with a grammar
  needs an induction over texts.

## 5. What is not modelled

- The rest of cJSON: printing, building, changing, comparing, minifying and
  duplicating trees, the hooks. It is vendored and nothing in the program calls
  it, so no state of the program depends on it. `cJSON_ParseWithOpts`'s
  `return_parse_end` and the global error pointer are set and read by nobody.
- The value of a number in JSON, and the locale's decimal point.
- What lies behind the one byte of a block nobody wrote to: it is read until
  memory happens to hold a zero, here within the block.
- Dilithium, TLS, curl's, serde's and tokio's internals: ideal or nondeterministic.
- Which damaged payloads still parse, character by character: `Bob` takes any of
  `Damaged`, which is derived from the cut at the level of fields and numbers. A cut
  inside a number or a name counts as one before it.
- Widths of lengths: `offset` is an `int` and the header 32 bits wide; payloads of
  gigabytes are outside the model.
- Restarts: docker-compose declares none, and nothing is persisted. `free_message`
  and `get_status` never run.
- Memory that Alice and Bob leak on their error paths before they exit.
- Wording, timing reports, and the pauses of the retry loops.

## 6. Plan

Most important behaviour first:

1. C demo: `Faults`, `Tcp`, `Cipher`, `Kme`, `Alice`, `Bob`, `AliceBob`,
   `SignedTransfer`; safety and refinement proved. *Done.*
2. Rust demo: `Sae2`, `Sae1`, `SaePair`, `ChunkTransfer`; safety and refinement
   proved. *Done.*
3. Payload text and KME client of the C demo. *Done.*
4. The JSON parser and `handle_json.c`, checked against the grammar; memory safety,
   nesting and ownership of the nodes proved. *Done.*
5. `connection_qkd`, `get_key` and `get_key_id` as one request that implements
   `KeyRequest`. *Done.*
6. Silent KMEs and full windows, and which waits they may cause. *Done.*
7. Progress without fairness: nobody stuck, steps that run out, for both demos, the
   parser and the request; proved. *Done.*
8. Left: `Damaged` derived from the characters a cut leaves (`PayloadText` composed
   with `JsonParser`), where it is now from the fields and numbers; lengths with their
   widths.
