# Models and proofs of rustls-wolfcrypt-provider

rustls-wolfcrypt-provider gives rustls its cryptography from wolfCrypt. It is a
library of stateless or nearly stateless objects (ciphers, hash contexts, key
exchanges, signing keys, verifiers) that rustls drives; all of the protocol
state is in rustls, all of the arithmetic is in wolfCrypt. What the provider
decides is everything in between: how a nonce is put together, what is
authenticated, how a payload is cut up, which lengths and keys are refused,
which algorithm a key belongs to, what is hashed by whom, which error a failure
becomes. These modules model that part from the source, and rustls, wolfCrypt
and the network from how the source uses them, so that the properties can be
about whole connections.

Paths below are relative to `rustls-wolfcrypt-provider/src/`.

## Inventory

| component | state | operations | interacts with | hard behaviour | correct when |
|---|---|---|---|---|---|
| record ciphers `aead/*.rs` | key and IV, fixed at creation | `encrypt`, `decrypt`, `encrypted_payload_len`; `encrypter`, `decrypter`, `key_block_shape`, `key_len`, `extract_keys` | rustls passes the sequence number and replaces ciphers at key changes; the network is between the ends | lost, repeated, reordered, cut, damaged records; key changes; failing calls after a number was counted | no nonce twice under a key; no key used past its limit; only what was sent, in order; what is due opens; no panic; extracted keys are the ones in use |
| hash contexts `hash/*.rs` | one C hash state each | `start`, `hash`, `update`, `fork`, `fork_finish`, `finish`, drop | threads that share a context (`unsafe impl Sync`) | overlapping calls; panics (`expect`) half way | no race; each C state freed once; contexts are values |
| key exchange `kx.rs`, `kx/*.rs` | an ephemeral key pair | `start`, `derive_shared_secret`, `complete` | the peer's share, from the network | invalid shares, retry with another group, failing calls | secrets agree exactly when shares do; keys used only with valid points of their group; ends with a common group connect |
| key loading `lib.rs`, `sign/*.rs` | none | `load_private_key`, three `try_from` | tries ECDSA, RSA, Ed25519 in turn | wrappings, transient failures, a decoder that crashes | a key loads as what it is or not at all; a key in a proper encoding never crashes the process |
| signing `sign/*.rs` | the key, shared by sessions (`Arc`) | `choose_scheme`, `sign` | rustls negotiates the scheme | key replaced meanwhile; key sizes; r and s with leading zeros | what is signed verifies |
| verification `verify.rs`, `verify/*.rs` | none | `verify_signature` | signatures from the network | `Ok(false)`, sizes, encodings | only the genuine signature is accepted |
| HKDF, HMAC, PRF `hkdf.rs`, `hmac/mod.rs`, `prf.rs` | the extracted key | `extract`, `expand`, `sign_concat`, `for_key_exchange`, `for_secret` | key schedule of rustls, with a peer that may be another implementation | output length limit, `expect`s, labels in pieces | both ends derive the same keys, and no two keys are the same |
| suites, provider `lib.rs` | tables | `provider`, `provider_with_specified_ciphers` | rustls picks a suite | tables that disagree; altered offers; limits | hash, KDF, AEAD, schemes of a suite are what its name says; nobody is talked down; key use is bounded |
| random numbers `random.rs` | none | `fill` | seeds everything | failure | failure is reported |
| errors `error.rs` | none | `check_if_zero`, `check_if_one`, `check_if_greater_than_zero` | return codes of C | codes in no class | every failure is an error |

`PROJECT.json` lists the same components with their status, the hazards at
their lines, and for every definition the lines it stands for.

## Modules

| module | models | composes |
|---|---|---|
| `Aead` | the record ciphers, as operators | |
| `RecordLayer` | one direction of a connection: writer, network, reader | `Aead`; refines `SecureChannel` |
| `SecureChannel` | what the record ciphers promise | |
| `RecordLayerProofs` | theorems about the two | |
| `HashContext` | contexts, C states and threads | refines `Transcript` |
| `Transcript` | contexts as values | |
| `HashContextProofs` | theorems about contexts | |
| `KxGroups` | the four groups, as operators | |
| `KeyExchange` | the groups in the handshakes of TLS 1.2 and 1.3 | `KxGroups` |
| `KeyExchangeProofs` | theorems about exchanges | |
| `Signatures` | key loading, signing and verifying, as operators | |
| `Signing` | a server's key, its sessions and their peers | `Signatures` |
| `SignatureProofs` | lemmas about the operators of `Signatures`, for the proofs of `Signing` and of `Handshake` | |
| `SigningProofs` | theorems about signing keys and signatures | |
| `Suites` | the suite table, and how record ciphers are made from keys | `Signatures` |
| `KeySchedule` | HKDF and PRF, and the derivations rustls makes with them | `Suites`, `KxGroups` |
| `Handshake` | whole connections | `KeySchedule`, so all of the operators above; refines `AuthenticatedExchange` |
| `AuthenticatedExchange` | what a handshake promises | |
| `HandshakeProofs` | theorems about what the two ends of a connection agree on | |
| `ConnectionProofs` | theorems about the keys in use through all key updates, and about connections that nobody disturbs | |
| `ErrorCodes`, `ErrorCodesProofs` | the table of return codes, and its theorem | |
| `MC*` | the instances TLC checks | |

Definitions named `Bug...` are broken variants of the definition below them,
each a mistake that could be made in that code. They are used nowhere; putting
one in its definition's place makes TLC refute the property that
`PROJECT.json` pairs it with.

### Aead and RecordLayer

`Aead` has one operator for each `encrypt` and `decrypt` of
`aead/aes128gcm.rs` and `aead/chacha20.rs` (`aes256gcm.rs` is `aes128gcm.rs`
with another key length). An encrypted payload is a sequence of cells, one per
byte; a cell names the seal it is part of (key, nonce, additional data,
plaintext) and its place in it. `Opened` is wolfCrypt's decryption: it succeeds
on exactly the cells of a seal, under its own key, nonce and additional data.
Cutting, splicing and damaging are then operations on sequences, and the
provider's slicing is modelled with the range checks Rust makes (`InRange`;
out of range is a panic). Short payloads give `DecryptError`, a failed opening
or any other failing call gives `General`, as in the code. Bytes and lengths
are numbers; the nonce is the part of the IV that the sequence number never
reaches and a word that is combined with it (`XorWord`).

`RecordLayer` adds the writer (`Send`, `SendAlert`, `SendWarning`, `SendRest`,
`Refresh`, `SendFails`, `AlertRefused`), the network (`Inbound`:
first bytes of one record, perhaps a damaged byte, last bytes of another, under
any header) and the reader (`Receive`). A KeyUpdate is the last message under
its key; both ends restart their numbers at 0. At the suite's
`confidentiality_limit` (or rustls' own limit, whichever is lower) a TLS 1.3
writer finishes its write and sends a KeyUpdate, a TLS 1.2 writer sends
close_notify in place of the message. As in rustls the test is for one exact
sequence number, and alerts are not tested. An alert ends the writer's side,
except TLS 1.2's no_renegotiation, which rustls sends once in a connection
(`SendWarning`). Sent exactly at the limit it steps over the test
(`LimitPassed`), and the key is used on up to rustls' hard limit, where other
messages are dropped and an alert meets an assertion (`AlertRefused`). The
application is taken to write nothing more once the writer is closed. The
fragments of one write are bounded by `MaxFragments`. The writer's unwrap of an
encrypt error ends it, a decrypt error closes the reader, as in rustls.
`sent` and `delivered` are histories.

### HashContext

`heap` holds the C states, `sha` says which context owns which, `call` which
call each thread is in. A call has a begin and an end, so calls overlap as far
as Rust's borrow rules (`CanShare`, `CanMutate`) and the unsafe `Sync` allow;
`fork_finish` has a third step between copy and finalize. A failing wolfCrypt
call panics the thread, and unwinding drops what it had in hand. `Transcript`
is the specification: each context is a byte string, `update` appends,
`fork` copies, `finish` and `fork_finish` output the digest of it. That
`wc_Sha256Copy` and its like only read the state they copy from is wolfCrypt's
affair and assumed.

### KeyExchange

Public keys are byte strings with a length and a point; a point names its
private key, or is bad (off the curve, or of low order). `use_*` export a
share, `*_accepts` are the checks of `derive_shared_secret`, `complete`
consumes the exchange. Actions are the steps of the rustls handshake that call
them: TLS 1.3 with the client's share first and at most one retry, TLS 1.2 with
the server's. `Alter` is a network that replaces shares, groups and answers.

### Signatures and Signing

A private key is an algorithm, a size or curve and an identity; an encoded key
adds the label of its `PrivateKeyDer`, right or wrong, and whether the bytes
are PKCS#8 (`"pkcs8"`), a wrapping that `PrivateKeyInfo` does not parse
(`"odd"`), an unwrapped key (`"bare"`) or neither. What the ECDSA loader hands
to the decoder is `Sec1Bytes`: EdDSA keys are turned away only under the label
PKCS#8 and only when the wrapping parses. One that reaches
`wc_EccPrivateKeyDecode` may crash the process (`Crash`), after which `crashed`
has its label and bytes. `ProperKinds` are the encodings whose label is true,
with the one exception that the end-to-end test makes (a SEC1 key labelled
PKCS#8). `load_private_key` tries the three `try_from` in the code's order, and
any of them may fail for a reason of its own (`failing`). Signatures name key,
padding and digest; ECDSA signatures carry r and s as byte sequences that lose
their leading zeros in DER and get them back in `der_sig_to_fixed_rs`. A PKCS#1
signature is as long as the buffer it was made in, of the sizes `sign` tries in
turn; that this is the size of the key is part of `SignInv`. `Load` may replace
the server's key at any time; sessions go on with the one they chose a scheme
with.

### Suites, KeySchedule and Handshake

Byte strings are sequences of pieces, each a number of bytes, from an offset
on, of what a term stands for; a term names the function that made it and all
of its arguments, so two ends have the same bytes exactly when they made them
in the same way. wolfCrypt's `hkdf_extract`, `hkdf_expand` and `prf` and the
hashes are such terms; `KeySchedule` has the operations of `hkdf.rs` and
`prf.rs` over them, and over those the labels, secrets, keys, Finished values
and exporters that rustls derives. Joining the pieces of `info`, the salt of
zeros, the split of the key block and the order of label and seed are explicit.
Labels count as one byte: only their being different matters.

Each derivation is made by one of two implementations. `"wolf"` is this
provider. `"rfc"` reads the suite names and the derivations as the RFCs define
them (`RfcSuite`, `RfcShape`, and the direct uses of wolfCrypt's functions).
Without it every mistake that both ends share would go unseen.

`Handshake` is two ends, at least one of them this provider. Its actions handle
one flight each: `SendClientHello`, `HandleClientHello`, then for TLS 1.3
`HandleServerFlight13` and `HandleClientFinished`, for TLS 1.2
`HandleServerFlight12`, `HandleClientFlight12` and `HandleServerFinished`, then
`SendKeyUpdate` and `HandleKeyUpdate`. They use `start`, `complete`,
`load_private_key`, `choose_scheme`, `sign`, `verify_signature`, the suite
table and the key schedule as rustls calls them. As in rustls the version is
settled first: TLS 1.3 when both lists have a suite of it (`Version`). The
server then chooses among the suites of that version (`Usable`, `Chosen`), and
without one the handshake fails.

A derivation that fails under `expect` (`expand_block` of `hkdf.rs`,
`for_secret` of `prf.rs`) comes to `Panic`, and so does what is derived from
it. A cipher whose key or IV has another length than its `copy_from_slice`
takes is `NoCipher`. Each flight asks for everything it derives
(`HandshakeMade`, `ApplicationMade`, `KeysMade12`, `NextMade`) before it
compares or sends anything, and panics when a part cannot be made (`IfMade`).
`Fault` is a wolfCrypt call that fails at any time, as an error or as a panic
according to the call. `Alter` is a network that changes one message in the
clear or spoils a sealed one. Records are sealed by their cipher; `Aead` and
`RecordLayer` have them in detail. `AuthenticatedExchange` is the
specification: each end accepts once or gives up, the second to accept has the
session of the first, and a client accepts only from the owner of the certified
key.

### ErrorCodes

The three checks of `error.rs` over return codes, and a caller that makes calls
in turn and returns at the first error. The numbers of wolfCrypt's named codes
are those of its `error-crypt.h`.

## Runs

| run | instance | states | shows |
|---|---|---|---|
| `RecordLayer` | 4 suites, 2 IVs, 4 messages, 3 sent, 2 record versions | 3408 | `TypeOK`, `NonceUnique`, `DeliveredIsPrefix`, `DueRecordOpens` |
| `RecordLayerLong` | 4 messages, 5 sent, AES-GCM limit 1, soft limit 2, hard limit 5, 2 fragments in a write | 4676 | `IInv`, `KeyUsage`, `ChannelSpec` |
| `RecordLayerSizes` | explicit nonce 8, tag 16, 1 sent | 240 | `NoPanic`, `DueRecordOpens` |
| `HashContext` | 2 threads, 2 contexts, 4 C states, 2 bytes | 12664 | `HashTypeOK`, `HashInv`, `NoDataRace`, `OwnedOnce`, `TranscriptSpec` |
| `KeyExchange` | 4 configurations at each end, both versions | 35056 | `KxTypeOK`, `KxInv`, `SecretsMatchShares`, `OwnGroupOnly`, `Connects` |
| `Signing` | 10 keys, right and wrong labels, 2 sessions, 4 offers, 0 or 2 leading zeros | 122500 | `SignTypeOK`, `SignInv`, `ProperKeysNeverCrash`, `LoadsAsItself`, `SignedVerifies`, `AcceptedIsGenuine` |
| `SigningMislabelled` | the same | | `NeverCrashes` is violated (Findings) |
| `Handshake` | 11 lists of suites at the client, 2 at the server, 4 groups, 3 kinds of key, own or foreign certificate, 1 alteration, 1 update of each end | 89236 | `HandshakeTypeOK`, `NoDowngrade`, `KeysSeparated`, `PanicsOnlyOnFaults`, `ExtractedAgree`, `ExportsAgree`, `HsInv`, `ExchangeSpec` |
| `HandshakeQuiet` | the same without alterations | 17264 | `NeverStuck`, `QuietInv` |
| `HandshakeUpdates` | one suite of each version, an RSA key, 4 groups, 1 alteration, 2 updates of each end | 7960 | `KeysInv` |
| `ErrorCodes` | codes -275 to 2, 2 calls | 4171 | `GoesOnOnlyOnSuccess` |
| `ErrorCodesNamed` | the same | | `NamedCodesClassified` is violated (Findings) |

Why the bounds are enough. In the record layer each received record is decided
by the reader's place and by at most two records it was spliced from, so three
sent with a key change between them show every relation of places; the messages
include the empty one and one ending in zero, the cases where TLS 1.3 could
mistake type for padding; the lengths are 1 and 2 where many records are sent
and the real 8 and 16 where slicing is the question. Five sent reach the limit
of AES-GCM, go past it in the same write, change keys and go on, or step over
the limit with a warning and reach the hard limit. The proofs remove these
bounds. In `HashContext` four C states let both threads hold a copy while both
contexts are live, and a race needs two threads and one state. In `KeyExchange`
the configurations force no retry, a retry to each side of the list, and no
common group; three private keys are all a handshake generates. In `Signing`
two sessions are enough to confuse two keys or two signatures, and keys cover
every branch of the loaders, an RSA size that only PSS handles, one too large
for both, and a curve without a scheme; encodings put wrapped keys of every
kind, and bare EC keys, under both of the labels PKCS#8 and SEC1. In
`Handshake` a connection has one initial handshake, each single suite forces
its own path, the whole list is what `provider` offers, and the shorter server
list makes the choice depend on both, and meets a list that shares a suite of
TLS 1.2 with it but none of TLS 1.3, where the handshake must fail; one
alteration is enough to talk an end down or to put oneself between, and one
update of each end lets the two cross; in `HandshakeUpdates` two of each can be
on their way at once, behind the client's Finished or not. Exports are asked
for at the limits of both hashes and one byte beyond.

Symmetry is used for threads, contexts and C states, and for sessions, which no
action tells apart; the runs with liveness use none (`TranscriptSpec` is a
safety property). Deadlock is not checked: a connection may close, a handshake
ends, a bounded history fills up.

Fairness. Only `KeyExchange` states any: `WF_vars(Step(TRUE))`, an end that has
a message in its inbox handles it sooner or later, which rustls does whenever
its caller reads. Nothing is assumed of the network or of failing calls;
`Connects` speaks only of handshakes that nobody disturbed. `Handshake` states
no fairness: its actions only follow one another, so `NeverStuck`, that ends
which can connect never fail and that one of them has something to handle until
both are connected, is the safety form of the same promise. Ends can connect
(`CanConnect`) when they have a suite for the server's key in common that is of
the version they settle on, the
certificate is the server's own, and the key can sign: an X25519 key loads but
does not sign, nor does an RSA key longer than the buffer of `pss_sign`.

## Proofs

`RecordLayerProofs` proves, for all values of the constants that satisfy the
assumptions (any messages, IVs, lengths, bounds, and any exclusive or with the
two properties of `XorAssumption`):

* `Invariance`: `Spec => []IInv`, the inductive invariant;
* `TypeCorrect`, `NeverReusesNonce`, `Integrity`, `RespectsLimit`,
  `NeverPanics`, `DueOpens`: each invariant of the runs;
* `Refinement`: `Spec => ChannelSpec`, the record layer implements
  `SecureChannel`.

The argument. `DeliveredIsPrefix` is not inductive: that the reader accepts only
the record that is due needs to know that no other record on the wire was
sealed under the reader's key and number. `IInv` says where everything is.
`WireInv`: each record on the wire is the encryption of the message sent under
the key and number in the history. `OrderInv`: these places strictly increase,
up to the writer's own, so none occurs twice. `ChainInv`: they follow one
another without a gap, a KeyUpdate leading to number 0 of the next key.
`LimitInv`: an open writer is at most at its limit, and one that is past it by
no more than a write is a TLS 1.3 writer about to change keys; the exception is
`LimitPassed`, a TLS 1.2 writer that sent its warning at the limit, which
`RespectsLimit` therefore excepts by name.
`ReaderInv`: the reader's place is the one after the last message it delivered.
A step of the writer appends the writer's place; a step of the reader is
accepted only for a seal with the reader's key and number (`DecryptAuthentic`:
through the nonce for three suites, through the additional data for TLS 1.2
AES-GCM), which by `OrderInv` and `ChainInv` is the one due (`AcceptsDue`).

The lemmas about the ciphers come first in the module: `RoundTrip` (decrypt
undoes encrypt for each of the four, at every length), `DecryptAuthentic`,
`NonceInjective`, `DecryptNoPanic`, and lemmas about cells and slices.

`ErrorCodesProofs` proves `ErrorsStop`: `GoesOnOnlyOnSuccess` for every integer
as a return code and any number of calls, from `CallsInv` (the result is the
last call's, and all calls before it succeeded) and from `CheckSound`, which
says of each check that it passes exactly the values that mean success.

`HashContextProofs` proves of any number of threads, contexts, C states and
bytes, with wolfCrypt calls failing at any time:

* `Invariant`: `Spec => []HashInv`;
* `TypeCorrect`, `RaceFree`, `MemorySafe`: `HashTypeOK`, `NoDataRace` and
  `OwnedOnce`;
* `Refinement`: `Spec => TranscriptSpec`, contexts are values.

`OwnedOnce` is not inductive: that a C state is freed by one owner only needs to
know who has it meanwhile. `HashInv` says it of every state: which contexts own
it, which calls under way have it by reference, by value or exclusively, that
two calls have the same context only if both only read, and that what a call has
by value is owned by nothing else. For the refinement it also says what the
bytes are: a copy under way holds what its context holds, as no writer can have
come between.

`KeyExchangeProofs` proves for any configurations of groups and any number of
altered messages `Invariant` (`KxInv`), `TypeCorrect` (`KxTypeOK`), `SameSecret`
(`SecretsMatchShares`) and `OwnGroup` (`OwnGroupOnly`). `KxInv` says that every
exchange that is held is of a key generated before and of the group it was
started for, that every secret was made from such an exchange and a valid point
of the same group, and which share went with it; so equal shares at the two ends
are equal pairs of keys, and the secret is the same in whichever order it is
made.

`SigningProofs` proves for any keys, sessions and offers `Invariant`
(`SignInv`), `TypeCorrect` (`SignTypeOK`), `NoProperCrash`
(`ProperKeysNeverCrash`), `OwnAlgorithm` (`LoadsAsItself`), `Verifiable`
(`SignedVerifies`) and `Genuine` (`AcceptedIsGenuine`). `SignInv` says that the
key in use loaded as what it is, with the scheme of its curve, that a session's
signer is for a scheme of its own key although the server's key may have been
replaced, and that each signature was made by its session's signer. Two lemmas
carry it: `LoadsOneOf`, which of the three `try_from` takes which encoding, and
`RoundTrip` (in `SignatureProofs`), that `der_sig_to_fixed_rs` undoes
`rs_bin_to_sig` for every length and every number of leading zeros.

`HandshakeProofs` proves for any lists of suites, any server keys and any number
of alterations, failing calls and key updates:

* `Invariant`: `Spec => []HsInv`;
* `TypeCorrect`, `NoPanic`, `Undowngraded`, `SameExports`: `HandshakeTypeOK`,
  `PanicsOnlyOnFaults`, `NoDowngrade` and `ExportsAgree`;
* `Refinement`: `Spec => ExchangeSpec`, the handshakes of both versions
  implement `AuthenticatedExchange`.

None of these is inductive, as what an end accepts depends on flights that the
network may have altered on either way. `HsInv` says what each end holds.
`ClientInv` and `ServerInv`: the secrets and the session of an end are those
that the registered meaning of the suite makes of its transcript and its shared
secret (`Accepted13`, `Accepted12`), whichever of the two implementations
computed them; a client that goes on has seen a signature by the certified key;
a server has chosen as it would for the hello it saw. `InboxInv`: a flight
under way has the shape of its kind, a signature in it is by the server's key,
and a Finished that is still sealed is the sender's own. `OrderInv`: who waits
has not accepted, and nobody has answered what was not sent. `AgreeInv`: two
ends that have accepted have the same transcript and session. The steps that
could break it are the two that accept second, `HandleClientFinished` and
`HandleServerFinished`; there the Finished that arrived was made by the peer
from its own transcript, and equals the one the end computes, so by
`FinishedTells13` and `FinishedTells12` the two transcripts and secrets are the
same. That the sides compute the same is `ScheduleSame`, `ScheduleMade`,
`Made12` and the lemmas below them: `expand_block`, `expand_slice`, `extract`
and `for_secret` come to what the RFCs derive, and a key block is cut the same
way by both ends. That nothing unwraps an error (`NoPanic`) has two halves:
`BlockMade`, `BytesMade`, `PrfSame` and `UpdateMade` show that what is asked of
`expand_block` and `for_secret` is never more than they can give, and
`TrafficKeys` and `Ciphers12` that no cipher is made from bytes of a wrong
length.

`ConnectionProofs` goes on from there, for the same constants:

* `KeysHeld`: `Spec => []KeysInv`, which keys are in use and which were;
* `SameKeysExtracted` and `SeparateKeys`: `ExtractedAgree` and `KeysSeparated`;
* `QuietCourse`: `Spec => []QuietInv`, the course of an undisturbed connection;
* `NotStuck`: `NeverStuck`.

`KeysInv` is about key updates, which each end sends when it likes and reads
when they arrive, so that they cross. `CountInv` says how many flights are on
their way by where the two ends are. `RatchetInv`: an end writes with the
secret that its own updates lead to, and reads with the one that the other's
updates lead to, less those still on their way; `SealInv`: these are in the
order in which they were sent, each sealed under the secret before it. Two ends
that have nothing left to read therefore hold the same secrets, which with
`AgreeInv` and the lemmas on `extract_keys` is `ExtractedAgree`.

`WrittenInv` accounts for every cipher that ever wrote: it is the write cipher
of one end at one stage, or after one number of updates. `KeysSeparated`
remains to be shown of the keys of two different ones. Directions and stages
differ in a label, and `FlattenSeq`, which joins the pieces of `info`, is worked
out for the three pieces that rustls passes. In TLS 1.2 the keys are pieces of
one block at different offsets. Two updates of one direction differ because the
ratchet never comes back: a secret names the one it was made from, so if two
were equal all the ones before them would be, down to the first, which has
another label. The induction this needs is over the natural numbers and is done
on a set, whose complement would have a least element (`Induction`); that the
recursive function `Ratchet` exists is shown the same way (`RatchetSteps`).

`QuietInv` says of ends that can connect, and that nothing has failed or
altered, that they are in one of the phases `Starting`, `Greeted`, then
`Answered13` and `Agreed13` or `Answered12`, `Agreed12` and `Confirmed12`, and
`Done`, and in each of them that what was sent, what is held and what is on
its way are given by the configuration alone, whichever of the two ends is this
provider. Each phase has one step that goes on, and a proof that the step
accepts: the two exchanges complete each other (`ExchangesComplete`), the server
finds a scheme that fits its key and its signature verifies (`SchemeFits`,
`OursSigned`), both ends compute the same secrets (`ScheduleSame`, `MasterSame`,
`Ours12`), and a key update opens (`UpdateOpens`, from `KeysInv`). In none of
the phases has an end failed, and until `Done` there is a hello to send or a
flight to handle, which is `NeverStuck`.

Where the code takes the first entry of a list that will do (a signature
scheme, a key size, a loader, a suite, a group), the models take the `Min` of a
set of places; `MinIsLeast` in `SignatureProofs` shows that this is one of them
and that none comes before.

Assumptions used: `LenAssumption`, `XorAssumption`, `RecordAssumption`, of
which `SeqSoftLimit + MaxFragments < SeqHardLimit` is the only one about sizes
(in rustls the two limits are 2^16 - 1 apart), `CodesAssumption`,
`HashAssumption` and `CallAssumption`, `ConfigAssumption`, `KeyAssumption`
(what a private key is), the `NoneAssumption` of `KeyExchange`, `Signing` and
`Handshake` (`None` is none of the values it stands beside),
`HandshakeAssumption` (the lists hold suites of the provider, a foreign
certificate is of a key that no server has) and `ServerKeyAssumption` (a server
is configured with a key that loads). TLC evaluates them on the instances.

Every invariant, action property and refinement of the passing runs is stated by
one of these theorems. Only model-checked is `Connects`, the one liveness
property: fairness is out of the prover's reach. `QuietInv` comes close to it
for whole connections, but that a phase is left takes the scheduling that
`Handshake` does not state.

## Findings

Two comments say something else than the code does:

* in `error.rs`, the comments on `WCError` list MP_MEM under `Memory`,
  BAD_STATE_E under `InvalidArgument` and RSA_BUFFER_E under `Buffer`;
  `check_error` has no arm for -2, -192 and -131 and gives `Failure` (run
  `ErrorCodesNamed`);
* in `sign/ecdsa.rs`, the comment above the check for EdDSA keys (66-67) says
  that it is there to prevent a segfault in wolfSSL. It is made only for keys
  labelled PKCS#8 whose wrapping parses: an EdDSA key in PKCS#8 bytes labelled
  SEC1 (line 89), or in a wrapping that does not parse (line 86), goes to the
  decoder (run `SigningMislabelled`). `ProperKeysNeverCrash` is what does hold.

A third is settled by a unit test and has no run: the comment on `check_if_zero`
in `error.rs` promises `Err(CryptoError::Failure)` for every value but 0, and the
code, as its test expects, gives the variant of the code.

Everything else holds of the code as modelled. Three things the models include
that a reader may not expect, without a doc of the repository to contradict
them: an X25519 key in PKCS#8 loads as an Ed25519 signing key. RSA keys other
than 2048, 3072 and 4096 bits are offered PKCS#1 schemes that `sign` then
cannot make. `LoadsAsItself` and `SignedVerifies` say so by excluding them. And
rustls' test for the `confidentiality_limit` that the suite table names is for
one exact number, which a warning of TLS 1.2 can occupy; `KeyUsage` names that
one behaviour (`LimitPassed`).

## Not modelled

* `with_key` and `sign_concat` of `hmac/mod.rs`: neither `hkdf.rs` nor `prf.rs`
  goes through them, so that rustls never calls them; only a unit test does.
* Resumption (pre-shared keys, tickets), early data and client certificates in
  `Handshake`: the provider offers no ticketer, and they use no other operation
  of it. The choice of a group and HelloRetryRequest are `KeyExchange`'s.
* Alerts and flights that arrive in parts: rustls' business. An end that gives
  up stays silent.
* Randomness: that numbers are distinct is an assumption (private keys and
  randoms are numbered). The cryptography itself is ideal.
* Zeroizing of buffers leaves no trace in these states. `Display` of `WCError`
  and `Debug` of keys are formatting.
* Examples, tests and build files have no logic of their own. wolfCrypt and its
  Rust wrapper are not in the repository.

## Plan

The models are complete but for the list above, and the safety properties of
all runs are proved. What is left is what would come with a change: a ticketer
or client certificates in the provider would add flights to `Handshake`, phases
to `QuietInv` and messages to `InboxInv`; another suite or group is a row in
`Suites` or `KxGroups` and in the lemmas that go through those tables.
