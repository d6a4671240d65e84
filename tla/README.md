# A specification of cmp_tool

`cmp_tool` is the reference implementation of the data compression of the PLATO
instrument. The repository holds a library and a command line tool:

* a **software compressor** for the ICU (`lib/icu_compress`), which turns a
  *chunk* (a sequence of collections of one data product) into a *compression
  entity*;
* a **decompressor** (`lib/decompress`), the ground side of both compressors;
* a **control library for the hardware compressor** (RDCU, `lib/rdcu_compress`),
  which mirrors the registers and the SRAM of a remote unit over RMAP/SpaceWire;
* code common to them (`lib/common`) and the **tool** itself (`programs`).

All line numbers below are those of `src/`.

## 1. Inventory

| Part | State it keeps | Operations | Talks to |
|---|---|---|---|
| RMAP transport, `rdcu_rmap.c` | `trans_log` (slots in use, their local addresses, `pending`), keys and paths | `rdcu_sync`, `rdcu_sync_data`, `rdcu_submit_tx`, `rdcu_process_rx`, `rdcu_rmap_sync_status`, `rdcu_rmap_reset_log` | driver callbacks `rmap_tx`/`rmap_rx`; writes into the mirror through stored addresses |
| RMAP packets, `rmap.c`, `rdcu_cmd.c` | paths and keys | build and parse packets, CRC8, one command per register | transport |
| Register and SRAM mirror, `rdcu_ctrl.c` | `struct rdcu_mirror`: registers and SRAM | getters, setters, `rdcu_sync_*`, `rdcu_write_sram`, `rdcu_read_sram` | transport |
| RDCU compression control, `cmp_rdcu.c` | the switch of the interrupt signal; else the mirror | configure, start, interrupt, status, read-back, parallel read/compress/write, error injection | mirror |
| RDCU configuration, `cmp_rdcu_cfg.c` | `struct rdcu_cfg` of the caller | create, buffers, parameters, adaptive parameters, checks | control |
| Chunk compression, `cmp_icu.c` | `dst`, the updated model, the version identifier and the clock callback | `compress_chunk_init`, `compress_chunk`, `compress_chunk_cmp_size_bound`, `compress_chunk_set_model_id_and_counter`, `compress_like_rdcu` | entity header, sample codec |
| Sample codec, `cmp_icu.c` and `decmp.c` | bitstream, previous sample, model | rounding, mapping, escape mechanisms, Golomb/Rice codes, update of the model | both sides share `cmp_cal_up_model.h` |
| Entity decompression, `decmp.c` | decoder, destination, updated model | `decompress_cmp_entiy`, `decompress_rdcu_data` | entity header, bit reader |
| Bit reader, `read_bitstream.h` | 64-bit register, cursor, count of bits consumed | `bit_init_decoder`, `bit_refill`, `bit_peek_bits`, `bit_consume_bits`, `bit_end_of_stream` | decompression |
| Entity header, `cmp_entity.c` | a byte buffer | one getter and setter per field | everybody |
| Data types and parameter checks, `cmp_data_types.c`, `cmp_support.c` | none | sizes, byte order, validity of parameters | everybody |
| Tool, `programs/*` | options, files | compress, decompress, guess parameters | all of the library |

### What is hard

The library is single threaded, so its interleavings are those with the *remote
unit and the link*: a response arrives while another transaction is being
submitted, is lost or is corrupted, and the driver may fail in the middle of a
submission after a slot was taken. `rdcu_process_rx` runs inside nearly every
call. The control of a compression reads registers back, decides on what the
mirror says, moves data into buffers whose last content is still wanted, and
works around three bugs of the hardware. In the software compressor the hard parts are *agreement at a distance*
(the decoder must take every decision the encoder took from a bitstream that
does not say which) and *limits*: capacities that are not a multiple of a word,
an encoder that runs out of space half way through a collection and has changed
the model by then, sizes of 16 and 24 bits, differences that wrap around.

`PROJECT.json` lists the hazards line by line, with the properties that catch
them and the ones nothing catches yet.

### What makes each part correct

* transport: a response completes its own transaction and no other; the counter
  of pending operations is the number of open transactions; when it is 0 the
  mirror is what the caller may believe it is; no transaction stays open for ever.
* registers: no setter disturbs the field of another; what was set is what the
  getter of the status register shows; every command is well formed.
* control: no command starts the compressor with parameters that did not arrive,
  nor before the last result is saved; results are read from a mirror that has
  been synchronised; the compressor does not get stuck.
* configuration: buffers accepted lie inside the SRAM and do not overlap.
* chunk compression: nothing is written beyond `dst`; a buffer of the bound
  suffices; a query returns what the compression returns; the entity can be
  parsed; the updated model is the one the receiver will have.
* codec: decoding inverts encoding, in step, and both sides agree on the model.
* compressor and decompressor together: a link that delivers what it was given,
  whatever the data product, the mode and the byte order of either host.
* entity header: no field covers another, the getters return what was set.

## 2. Modules

| Module | Models | Checked by | Proved in |
|---|---|---|---|
| `RdcuRmap` | transaction log, syncs, response processing; the link and the RDCU (external) | `MCRdcuRmap` | `RdcuRmapProofs` |
| `SramSync` | the three SRAM transfers of `rdcu_ctrl.c`, down to the packet; the transport as a count of open transactions | `MCSramSync` | `SramSyncProofs` |
| `RmapPacket` | the packets of `rmap.c` and `rdcu_package`, byte by byte: operators, used by `RdcuRegs` | `MCRdcuRegs` | - |
| `RdcuRegs` | every register of `rdcu_ctrl.c` and command of `rdcu_cmd.c`, on top of the packets | `MCRdcuRegs` | - |
| `RdcuCfg` | `cmp_rdcu_cfg.c` and the order of checks in `rdcu_compress_data` | `MCRdcuCfg` | `RdcuCfgProofs` |
| `RdcuCompress` | `cmp_rdcu.c` sync by sync, with the RDCU at the other end of the link | `MCRdcuCompress` | - |
| `ChunkCompress` | `compress_chunk`, `cmp_collection`, the size bound | `MCChunkCompress` | `ChunkCompressProofs` |
| `SampleCodec` | the encoder and decoder of one field, bit by bit | `MCSampleCodec` | `SampleCodecProofs` |
| `DataProducts` | the fields of every data product: order, parameters, byte order, sizes: operators | `MCEntityRoundTrip` | `EntityRoundTripProofs` |
| `CmpEntity` | the fields of the entity header, byte by byte: operators | `MCEntityRoundTrip` | `EntityRoundTripProofs` |
| `EntityRoundTrip` | the compressor, the header and the decompressor together | `MCEntityRoundTrip` | `EntityRoundTripProofs`, `EntityDeliveryProofs` |
| `DataLink` | abstract: a link that delivers what it is given | by refinement, `EntityRoundTrip` | `EntityDeliveryProofs` (the refinement) |
| `Arith` | nothing of the code: induction over sets of numbers, recursive functions, division | - | itself |

How they fit together:

    RdcuCompress (syncs of a call)          EntityRoundTrip -- implements --> DataLink
      |  addresses: RdcuCfg                   |  header: CmpEntity
      |  words of a transfer: SramSync        |  fields: DataProducts
      |  fields of a register: RdcuRegs       |  bits of a field: SampleCodec
      |       packets: RmapPacket             |  capacities: ChunkCompress
      |  transactions: RdcuRmap

Solid use (`EXTENDS`) is `RdcuRegs` of `RmapPacket`, `EntityRoundTrip` of
`CmpEntity` and that of `DataProducts`; the others look at one system at
different resolutions and share no state.

### RdcuRmap

`in_use`, `local_addr` and `pending` are the fields of `trans_log`. A register,
or the block of SRAM words one packet carries, is one element of `Addr`; a local
address and the remote address it stands for are the same element, because
every caller passes the place in the mirror that belongs to the remote address.

A call of the library is not atomic. `pc` is where it stands: `rx` in
`rdcu_process_rx` (one packet a step), `grab` before the slot is taken in
`rdcu_sync_data`, `tx` before `rmap_tx`; `after` is where it goes on when
`rdcu_process_rx` ends. The RDCU and the link act between any two steps.

| Action | Code |
|---|---|
| `Sync` | `rdcu_sync`: slot taken *first*, then command generation, then `rdcu_submit_tx` |
| `SyncData`, `Grab` | `rdcu_sync_data`: responses processed, then slot or retry |
| `Tx` | the rest of `rdcu_submit_tx`: `rmap_tx` sends or fails |
| `RxEmpty` ... `RxData` | one way each through the loop of `rdcu_process_rx` |
| `SyncStatus`, `ResetLog` | `rdcu_rmap_sync_status`, `rdcu_rmap_reset_log` |
| `WriteMirror` | any setter of `rdcu_ctrl.c`, `rdcu_write_sram` |
| `RdcuExecute`, `RdcuReject`, `RdcuUpdate`, `LoseCommand`, `LoseReply`, `DamageHeader` | the environment, not in `src/` |

A reply arrives as a payload and a checksum (`Arriving`), either of which may be damaged,
or both; the checksum (`Crc8`) is any function of the words, and different words may
have the same, as with 8 bits they do. The CRC of a header is stored
(`rmap.c:568`) and compared by nobody: `DamageHeader` gives a reply another transaction,
or takes its data away. Then a payload can land at an address of another kind
(`Copied`): the length copied is that of the packet, so a register fills only a part of
an SRAM block, and a block runs over the registers behind its address. The history variable
`misled` tells that a packet has had an identifier that is not its own, because of such a
header or because it is older than the last reset of the log; `leaked` holds the slots
nothing will give back, `dirty` the addresses changed since their last sync.

Some details that matter and are kept: an error path leaves the slot taken; a
packet without data completes a transaction whatever its status; the payload is
byte swapped in place *before* its CRC is computed; a reply that fails the CRC
has already released its slot; after `RxGarbled` and `RxUnknown` the loop goes
on, after a bad length or a bad CRC it ends, and no caller looks at its result.

`rdcu_sync` on a little endian build copies the register to be written before
it processes responses (`buf`); every other payload is read from the mirror
when the packet is built, just before `rmap_tx`. What can change the mirror in between is
a response, so this difference can be observed.

`leaked` and `dirty` are history variables: slots whose transaction can never
be answered, and addresses that one side changed after their last sync was
submitted.

### SramSync

`RdcuRmap` looks at one transaction at a time and takes a block of SRAM words
for one address; this module looks at the words. One action is one step of a
transfer: the checks of the arguments (`Call`), the processing of responses at
the start of `rdcu_sync_data` and inside `rdcu_submit_tx` (`Process`,
`Processed`), the slot (`Grab`), the packet (`Tx`). `dir` is the direction the
loop is about to serve, `done` and `left` are `sent`/`recv` and
`tx_bytes`/`rx_bytes`. Of the transaction log only the number of slots in use is
kept (`Open`); which slot belongs to which packet is the subject of `RdcuRmap`.

The mirror holds `Icu(a)` in the word at `a` and the SRAM `Rdcu(a)` when a call
starts, so that a word out of place is seen wherever it comes from. To begin
with fresh contents, a call is made on a quiet link; the second call of a
behaviour differs from the first by the transactions lost before.

| Action | Code |
|---|---|
| `SyncMirrorToSram`, `SyncSramToMirror`, `SyncSramMirrorParallel` | the checks of the function of that name, up to its first `rdcu_sync_data` |
| `Process`, `Processed` | `rdcu_process_rx`, one packet a step |
| `Grab` | the slot or the retry of `rdcu_sync_data` |
| `Tx` | `rmap_tx` and the way back to the loop: position, remaining bytes, other direction |
| `Poll` | `rdcu_rmap_sync_status` after the call |
| `Execute`, `LosePacket` | the RDCU and the link, not in `src/` |

### RdcuCfg

`struct rdcu_cfg` field by field where SRAM buffers are concerned; the other
parameters are reduced to the outcome of their checks (`gen`, `ima`). Every sum
and product is taken modulo `W`, as `uint32_t` is. A transition is one call.
`Compress` is `rdcu_compress_data`: the checks, the setters, which refuse what
does not fit their 24 bits, the transfers rounded up to whole words, the start;
`used` is what the registers hold when the compressor starts. The correctness
properties are stated in the integers (`Inside`, `Disjoint`), apart from the
code's own arithmetic.

### RmapPacket and RdcuRegs

A packet is a sequence of bytes. `rmap_build_hdr`, `rdcu_package` and
`rmap_pkt_from_buffer` are translated byte by byte, CRC included; paths and
instruction bits are in. `RdcuRegs` has the tables of the code: `Icd` (the
addresses of `rdcu_cmd.h`), `Members` (`struct rdcu_mirror`), the commands (which
register a `rdcu_sync_*` function asks for), `Setters` (shift, mask and limits of
each field) and `Getters`. A register is the set of its bits that are 1.
`Set` is any setter, `Sync` any sync, `Receive` is `rdcu_process_rx` for one
packet, `Execute` a target that takes well formed commands only and shows the
control registers in the status registers (external). `want` is what the setters
accepted last, `stage` how far a setting has come (set, sent, read back), `asked`
the registers that were read and have not changed since.

The tables that must agree are separate definitions, as they are in the code.

### RdcuCompress

A call is a sequence of steps (`todo`), built by an operator of the name of the
function; a step is a sync with the code before it, or code between two syncs.
Between two steps the RDCU may take commands from `wire`, in order, and
put answers on `back`; a sync stores what has come, before it sends. A sync
that fails ends its *scope*: the call, or the function whose result the caller
ignores (`register`: `rdcu_compress_data_parallel` and
`rdcu_set_compression_register`; `interrupt`: the workaround and
`rdcu_interrupt_compression`).

`rdcu_syncing` is compiled out, and a comment says it is not needed for the
generation of packets. In use it has to wait. `adjusted` is chosen once and says
which of the two the behaviour is about: as in this repository, or waiting
until everything has been answered. What the properties promise differs, and
says so.

Contents of buffers are told apart by kind and by the number of the call or run
they come from. The RDCU (external) has the bugs the comments tell
of: it gets stuck in a mode behind a raw one (`Started`), does not update sizes
in raw mode for few samples (`Ended`), hides the bypass status of two chips.

| Definition | Code |
|---|---|
| `rdcu_set_compression_register` ... `rdcu_read_cmp_status` | the steps of the function of that name |
| `Exchange`, `Models` | the middle of `rdcu_compress_data_parallel` |
| `CheckAndReadUsed`, `Workaround`, `SetAndSync` | the parts of `rdcu_set_compression_register` |
| `Ctrl` | setting, syncing and clearing a bit of the control register |
| `Store`, `LoadBack`, `Exchanged` | mirror to SRAM, SRAM to mirror, both at once |
| `ReadInfo`, `ReadStatus`, `Give` | the syncs of the information, and what the caller gets |
| `EdacSync`, `EdacVerify`, `Inject` | one chip of `rdcu_inject_edac_error`, and the word |
| `Wait` | `rdcu_syncing`, adjusted |
| `Calls`, `Poll` | the callers; the signal of the RDCU is enabled and they wait for it |

`spoilt` is a history variable with what the running call has lost: `skipped`
(a failure nobody looked at), `left` (a bit left in the control register) and
`blind` (the mode was looked at before it had arrived).

### ChunkCompress

A chunk is its size and what the walk through its collection headers meets:
offsets, data lengths, types and the outcome of the parameter checks. What the
encoders do is reduced to the bits they need (`cost`), any number out of a set:
an encoder fails for lack of space only, since `MAX_USED_BITS` are the widths of
the fields themselves and the checks on the thresholds bound code words by 32
bits (this last is `CodeWordsFit` of `SampleCodec`). One action is one way
through `cmp_collection`: refused, stored raw in raw mode, compressed with room
to spare (`Compressed`), found incompressible and stored raw (`StoredRaw`),
compressed into what is left (`Tight`). `high` is how far into `dst` anything
was written, whole words and padding included; `up` is what became of the
updated model; `out` is the layout of the entity; `asked` is the answer to the
last call with `dst = NULL`. The caller repeats calls with any capacity, and
a call that updates an in-place model changes what the next call encodes: `cost`
changes. `fits` says whether the header takes the parameters (`HeaderRefused`): a model
value above 255 outside model mode and the parameters of pairs the chunk does not
use are looked at by no check before the setters of the header refuse them.

### SampleCodec

`Encode` is one iteration of the loop of `compress_imagette`, `Pad` is
`pad_bitstream`, `Decode` is one iteration of `decompress_imagette`. The stream
is a sequence of bits. `Reg` is the width of the machine's registers, 32 in the
code: every sum the code computes in 32 bits is taken modulo `2^Reg`, and the
bits of a sample are at most that many. Golomb parameter, threshold, escape
mechanism, width, rounding and weight of the model are chosen once (`cfg`), and
every combination that passes the checks of `cmp_support.c` is.

Code words are `rice_encoder` and `golomb_encoder` on one side and
`unary_decoder`, `rice_decoder` and `golomb_decoder` on the other, translated
independently: they agree because of what is checked and not by construction.

### DataProducts, CmpEntity, EntityRoundTrip, DataLink

`DataProducts` has the tables in which the encoders, the decoders, the parameter
checks and the byte order conversions agree, or do not: one definition for each
function of the code, under its name. `CmpEntity` has the header as a
function from offsets to bytes; a setter is the bytes it writes or a refusal, a
getter reads bytes.

`EntityRoundTrip` has the two sides. The instrument compresses a chunk with
`compress_chunk`, collection after collection, builds the header, sets model id
and counter; or it compresses one input with `compress_like_rdcu` and the tool's
calls build an entity around it, or send it with its information. The ground
knows the entity and its own model. A value is what a CPU reads; a code word is
the setup it was coded with and the difference, and a decoder with another setup
gets `Garbage`. So whatever differs between the sides shows: a parameter read
from the wrong place, a field coded in another order, one that is not turned
around, a collection taken for raw.

| Action | Code |
|---|---|
| `compress_chunk` | the start: configuration from parameters, header size |
| `CollectionRefused`, `RawCollection`, `Compressed`, `StoredRaw` | the ways through `cmp_collection` |
| `NoRoomForHeader`, `SmallBuffer` | `dst` is full, before or behind n samples |
| `HeaderRefused`, `cmp_ent_build_chunk_header` | the setters in their order, the timestamps |
| `compress_like_rdcu`, `..._refuses`, `..._small_buffer` | the function of that name |
| `cmp_ent_write_rdcu_cmp_pars` | `cmp_ent_create` and the function of that name |
| `decompress_cmp_entiy`, `DecompressCollection`, `RawChunk`, `DecompressRdcuEntity` | the function and its loop |
| `decompress_rdcu_data`, `DecompressRdcuData` | the same for a bitstream without header |
| `Send`, `NextChunk` | the callers: the entity travels, both sides take their updated models |

`DataLink` is what the pair promises: `Send`, `Deliver`, and what is delivered is
what was sent as long as the link is `trusted`; a failure may take the trust
away, an entity that needs no model gives it back. The refinement mapping takes
`place` from `pc`, `sent` from the chunk (less the bits lossy compression gives
up) and `trusted` from `~spoiled`: a compression that failed with an in-place
model half updated. Every step of `EntityRoundTrip` is a step of `DataLink` or
a stutter (`Delivers`).

## 3. Runs

| Run | Instance | Shows |
|---|---|---|
| `rmap_reliable` | 2 slots, three addresses (one of each kind), 2 words, no faults, caller waits, fair | `TypeOK`, `SyncComplete`, `StatusMeansPending`, `Answered` (no slot stays in use for ever) |
| `rmap_faulty` | 2 slots, three addresses, 3 words of which two share a checksum, ten faults (all but payload and checksum damaged both), the log reset with up to one packet on the link, caller does as it likes | `OneOwner`, `RxDelivers` until a packet has a foreign identifier (`misled`), `PendingCount` always |
| `rmap_little_endian` | little endian build, no faults | `SyncComplete` fails (finding 1) |
| `rdcu_regs` | 21 groups of registers, fields at and beyond their limits, the one valid board key, no path and paths of 2 and 3 bytes (padded) | `FieldsKept`, `SettingsReadBack`, `ReadsArrive`, `CommandsAnswered` |
| `regs_board_key` | the reset register, the valid board key and another one | `FieldsKept` fails (finding 3) |
| `sram_transfer` | SRAM of 16 bytes, 2 slots, addresses and sizes around its end, packets of 2 (refused), 4 and 8 bytes, packets lost, data dropped, submissions that fail; no commands the RDCU rejects | `TypeOK`, `Within`, `PacketsTile`, `Complete`, `NoStray`, `LogHolds`, `Returns` |
| `cfg_start` | SRAM of 16 bytes, integers of 7 bits, aligned and unaligned, overlapping and separate buffers, lengths that wrap | `StartedApart`, `TransfersApart`, `TransferNeverRefused` |
| `rdcu_compress` | 6 configurations, 5 buffers, 2 calls, 3 runs of the compressor, one failed sync, `rdcu_syncing` empty and waiting | `StartedAsAsked`, `NeverStuck`, `SavedFirst`, `ReadsRight`, `InjectRight` |
| `chunk` | 0-2 collections, 12 well formed and 11 malformed chunks, 22 capacities, raw, differencing and model mode with no, a separate and an in-place updated model | `TypeOK`, `BoundSuffices`, `NoOverrun`, `QueryExact`, `Parseable`, `ModelTracks` |
| `chunk_query_reads_only` | a query with an in-place model | `QueryReadsOnly` fails (finding 2) |
| `entity_round_trip` | chunks of every type with every data product, 6 configurations of the RDCU, 5 modes, both byte orders on either side, two entities, one failure | `Accepted`, `ModelsAgree`, `HeaderKept`, `ParsChecked`, `Delivers` |
| `codec` | samples of 3 and 4 bits, registers of 4 and 8 | `RoundTrip`, `ModelsAgree`, `CodeWordsFit` |

A run states what it is there for: properties that also hold in another run's
larger instance are left to that one.

### Bounds, and why they are enough

* **Log of 2 slots** (64000 in the code): one slot can be reused while another is
  open and the log can be full; transactions are interchangeable otherwise, and
  the proofs hold for every size.
* **Two words** (three where a byte swap must have a fixed point and a pair, and where
  two words must have one checksum and a third another): properties compare contents
  only for equality and for equal checksums. A register and an SRAM block
  of each direction give each path through the code.
* **Packets on the link** need no bound of their own: a packet belongs to a slot,
  or to one of the `ResetBacklog` packets a reset left behind. One such packet is enough
  for a reply that answers the wrong transaction, which is all that is excepted.
* **The view of `rmap_faulty`** (`MCView`): its properties read no `dirty`, and once
  `misled` only `PendingCount` says something, which depends on no contents. States
  that differ in these alone are one state there.
* **SRAM of 16 bytes, 2 slots**: transfers of up to four packets, whole and
  partial, so that the log fills up and empties during a call; the integers
  wrap at 36 so that an address plus a size does.
* **Integers of 7 bits, registers that hold 23** (`RdcuCfg`): 64 samples are 0
  bytes, and no register holds 64. `fresh` bounds the calls of
  `rdcu_cfg_buffers` to one for each `rdcu_cfg_create`; it overwrites every
  field it sets, so that a second call shows nothing new.
* **Chunks of two collections**: a first, a last and a middle state in between;
  lengths 0, 4 and 6 (the last ends within a word) and lengths at the limits.
  Capacities take every residue modulo 4 around the header, the first
  and the second collection, raw and compressed. `CMP_ENTITY_MAX_SIZE` and the
  size field, 2^24 - 1 and 2^16 - 1 in the code, are scaled down to 140 and 68
  so that chunks reach and exceed them. Costs lie below, at and above the size
  of the raw data, inside and at the end of a word.
* **Registers of 8 and 4 bits, two samples**: all values of a sample are tried,
  so every wrap-around and boundary of the threshold is; the second sample meets
  a stream that is not aligned and, in differencing mode, a predecessor. With 4
  bits the data are as wide as the register, as `uint32_t` fields are; with 8
  they are narrower, as `uint16_t` fields are.

* **Groups of registers** (`rdcu_regs`): a setter touches one register, a sync
  one register, so that interference can only be among the fields of a register
  and between a control register and the status registers that show it. Every
  field is set to 0, 1, 2, 5, its limits, the largest aligned value and one more.
  Four calls: set, sync, sync of the status, and one more anywhere in
  between. `lvds_link_0` and `lvds_link_7` stand for the eight.
* **Two calls with a configuration** (`rdcu_compress`), reads, status and
  interrupts without limit in between: a hazard is about what one call leaves
  behind for the next. Three runs of the compressor, since a bit left by a failure
  starts one more. Buffers change their use between the configurations: the
  data of one are where the bitstream of the other was. Two of the four chips,
  one that hides its status. One failure, in behaviours where `rdcu_syncing`
  waits; without waiting every delay is possible anyway.
  A call begins when the commands of the last one have reached the RDCU; answers
  may be late. Registers the properties do not tell apart go together: six groups of
  parameters, three of information.
* **Two entities, one failure** (`entity_round_trip`): the second is coded against
  the model the first leaves on each side. Collections of 0, 1 and 2
  samples; 21 settings with each data type a chunk may hold, parameter sets that
  are refused, and sets that are refused only for some data types. Rounding is 0
  for chunks, 0 to 2 for RDCU inputs.

### Fairness

`Answered` and `Returns` need it. `WF(Library)`: a library call is sequential code
whose loops end when no packet is waiting. `WF(RdcuExecute)`: the remote unit
answers a command it received. `WF(SyncStatus)`: the caller polls, as the usage
notes tell it to (`rdcu_ctrl.c:28-48`); `SramSync` needs no polling, since its
loops process responses themselves (`WF(Execute)` is the remote unit there). None is assumed of new
syncs, of changes by the RDCU or of a reset.

### Deadlock

Checked in all runs but `codec`, where a behaviour ends when all samples are
decoded, and `rdcu_regs` and `rdcu_compress`, where the bound on calls ends it:
a call that hangs there would show in a wait that nothing ends, and
`StartedAsAsked` and `ReadsRight` speak of calls that return. In
`entity_round_trip` the bounds end in a step of their own (`Stop`), so that a
decompressor that stops half way is a deadlock.

## 4. Findings

1. On a little endian build the CRC is computed over the byte swapped payload
   (`rdcu_rmap.c:303-309`): a read on a perfect link is dropped unless its bytes
   have the same CRC in both orders (`rmap_little_endian`).
2. `compress_chunk` with `dst = NULL`, documented as "to only get the compressed
   data size", updates the model, and with an in-place model the compression
   that follows encodes against it (`cmp_icu.c:1851`; `chunk_query_reads_only`).
3. `rdcu_set_rdcu_board_reset_keyword` ("clear and set", `rdcu_ctrl.c:545`) clears four of
   the eight bits it sets: 0x9A and then 0x05 leave 0x95 (`regs_board_key`). 0x9A is the
   only valid key, with it alone nothing goes wrong.

More observations, made while modelling, without a run of their own:

* `rdcu_process_rx` drops a reply with a bad CRC after it decremented `pending`,
  and `rdcu_rmap_sync_status` ignores the error: status 0 without the data having
  arrived. `SyncComplete` and `StatusMeansPending` therefore hold under the faults section 5 names only.
* The CRC of a reply's header is copied out of the packet (`rmap.c:568`) and compared by
  nobody: with a damaged transaction identifier good data are stored at the address of
  another command (`rdcu_rmap.c:277`). The fault is in the model and in `rmap_faulty`;
  what follows it is excepted from `OneOwner` and `RxDelivers` by `misled`, without which
  TLC refutes both.
* The same happens when the log is reset while a packet is on the link: its identifier is
  given out again and the late response is stored at the new transaction's address. Nothing
  in the repository calls `rdcu_rmap_reset_log`, and no comment says when it may be called.
* A call that fails after its slot was taken does not give it back (`rdcu_rmap.c:448`): the
  status, documented as "> 0: operations pending", stays positive with nothing under
  way, and the log fills up. `StatusMeansPending` fails with the fault `tx_error`.
* `rdcu_compress_data_parallel` takes the number of bytes `rdcu_read_sram` returns
  for an error (`cmp_rdcu.c:679`): with an output buffer it never succeeds
  (`Output`). The read of the model below it compares with 0 as it should.
* With `rdcu_syncing` empty the workaround for the raw mode decides on an old
  mode and the compressor can get stuck, and `rdcu_inject_edac_error` always fails
  at the first chip. The comment says it has to be adjusted.
* After a failed sync of the control register its bit stays set in the mirror and
  goes out with the next one (`cmp_rdcu.c:91, 217`). It can take two more calls to
  do harm: the start goes out with the interrupt of the next call, a raw run begins
  behind which the registers of another mode are written, and a third call that
  cannot set its registers starts the compressor with these: it gets stuck. This
  takes three calls and two failures, more than the run has; `NeverStuck` excepts it.
* `rdcu_compress_data_parallel` writes the data before it reads the updated model of
  the last compression (`cmp_rdcu.c:668, 704`). Data that go to where that is, as valid
  for each call alone, overwrite it unread; the note at `cmp_rdcu.c:634` says that
  overlaps are not checked. `SavedFirst` excepts it. Likewise a model that a call
  between wrote to that place is used for the updated one (`cmp_rdcu.c:691`), which
  `StartedAsAsked` leaves open.
* The getters for the SpaceWire error counters (`rdcu_ctrl.c:242-286`) read
  `spw_link_status`, not `spw_err_cntrs`; `rdcu_edac_get_scrub_info` (1542) reads
  the control register; `rdcu_sync_adc_values` (1834) takes `'1'` to `'4'` where
  its comment says 1 to 4; `rdcu_package` (`rdcu_rmap.c:614`) does not know
  one of the write commands. `RdcuRegs` and `RmapPacket` model them as they are.
* `rmap_pkt_from_buffer` takes the CRC of the header from where it is without a reply
  path. `RmapPacket` leaves it out, since nobody reads it.
* The updated model of a chunk that failed half way is half updated, in place
  (`spoiled`).
* `compress_like_rdcu` truncates model value and rounding to 8 bits and accepts
  Golomb parameters the entity header refuses.
* An MTU of 0 passes the check for a multiple of four and the transfers never
  return, those of 0 bytes neither (`rdcu_ctrl.c:2274`). `SramSync` models this;
  with `Mtu = {0}` the property `Returns` fails.
* Lengths in bytes are computed in 32 bits (`cmp_rdcu_cfg.c:177`), so that `2^31`
  samples take 0 bytes and `rdcu_cfg_buffers` returns 0 for them. `StartedCorrect`
  shows that the compressor is never started on such a buffer, because the
  setters of the registers accept 24 bits only.

## 5. Proofs

TLAPS checks the following for every value of the constants that satisfies the
named assumptions of the modules.

**Transport** (`RdcuRmapProofs`), for every log size, address map, build and set of faults:

* `TypeCorrect`. `TypeOK` is inductive. It includes that a slot in use has an
  address and that a call that transmits owns a slot.
* `PendingCorrect`. `PendingCount` is inductive with `TypeOK`: every step that
  changes `in_use` adds or removes one element of a finite set, and lemmas on
  cardinalities tell what that does to the count.
* `OwnerCorrect`. `OneOwner` is inductive with `TypeOK` and assumes nothing: under every fault
  and reset each slot in use has one owner (`Owners`) until a packet comes with a foreign
  identifier (`misled`). From then on it is false, because identifiers start again from the
  lowest free slot after a reset, and because nobody checks a header. Lemmas tell what
  `Append` and `Tail` do to the transactions of a queue.
* `DeliveryCorrect`. In a state that satisfies `Owners` the head of the
  response queue is tracked, i.e. the log holds the address of its command;
  hence the step that stores it is the one `RxDelivers` allows. It assumes
  that payload and checksum of one reply are not both damaged; that the
  checksum is a function of the payload is all that is known of it, so contents of the same
  checksum are let through, as by the code.

**The mirror** (also `RdcuRmapProofs`), on top of it: what the status tells the caller,
under the faults that do not refute it (the observations of section 4 describe those that do).
Both assume that the log is only reset with an empty link and that no header is damaged, and
then no packet ever has a foreign identifier (`NamedCorrect`):

* `StatusCorrect`: no slot leaks (`NoneLeaked`), so by `Owners` a slot in use has
  something under way. Rejected commands, damaged payloads and checksums, wrong lengths and a
  library without memory are allowed; packets that get lost are not.
* `SyncCorrect`: with a big endian build, a caller that waits, and no fault but
  failing calls (`Careful`), a counter of 0 means that both sides agree. What is on
  the link has to be told from what is in the mirror for that, so the invariant
  (`OnTheWay`) follows each address: its writes are in front of its reads
  (`Ordered`), the newest transaction under way makes both sides equal, and they are
  equal when there is none (`Settled`); a call that is to write has no read in front
  of it (`CallHolds`). Lemmas tell what `Append` and `Tail` do to the newest packet
  of a kind and to the order of two kinds.

**SRAM transfers** (`SramSyncProofs`), for every size of SRAM and log, all arguments and faults:

* `TypeCorrect` and `WithinCorrect` come from `CallInv`: while a call runs, each of
  its directions is a range of whole words inside the SRAM, cut at a whole word
  (`Cut`), and there is something left for the direction it is about to serve
  (`Running`). The 32-bit sums of the checks do not wrap once address and size
  are each within the SRAM, which is why the code looks at both.
* `TileCorrect`: the packets on the link ascend and lie before the position of
  their direction. Lemmas tell what `Append` and `Tail` do to the order of a
  queue and of two queues.
* `StrayCorrect` adds what packets carry (`Carries`): each word under way is one
  of the contents that belong at its address.
* `LogCorrect`: `Open` and the slot held never exceed the log.
* `CompleteCorrect`: `SentInv`, inductive on top of the above, says that no word is
  asked for in both directions (`Apart`), that packets carry the words of the side
  they come from (`Exact`), that each word the loops have passed has arrived or is
  on the link (`Underway`), and that a call that returned 0 has passed all of them
  (`Finished`). With no transaction open nothing is left on the link.

**Configuration** (`RdcuCfgProofs`), for every SRAM and width of integers and
registers such that the sums of an SRAM address and two registers fit
(`WidthAssumption`; 2^23, 2^32 and 2^24 - 1 in the code):

* `StartedCorrect`: what does not wrap can be compared as the code does
  (`InRange`, `ApartFromChecked`), and the setters bound what could
  (`AcceptedFits`).
* `TransfersCorrect`, `NeverRefusedCorrect`: rounding a length up to whole words
  does not carry a buffer over the next aligned address (`RoundUpWithin`).

**Chunk compression** (`ChunkCompressProofs`), for every chunk, capacity, cost and size limit:

* `TypeCorrect`, `NoOverrunCorrect` and `BoundCorrect` come from one inductive
  invariant, `BufferInv`. The properties speak of finished calls, so it adds
  what holds between two collections: `dst_size` is at most the header, the part
  of the chunk consumed and one size field per collection (`Loop`), and all that
  was written lies within the capacity (`Space`). `BoundSuffices` leaves the header one
  reason to refuse the entity, parameters no check has looked at (`fits`); its size never is one.
* `ParseableCorrect` and `ModelTracksCorrect` come from `LayoutInv`, inductive on top of it: the entries of `out`
  are contiguous and a field says *raw* exactly when the encoder did. This needs
  that an encoder never gets as many bytes as the raw data take.
* `QueryExactCorrect` relates two calls, with any capacity and any updated model.
  `VerdictInv`: which check stops a call depends on the chunk only (`Judged`, `Outcomes`), so a
  call with a buffer ends with the error of the query or runs out of space
  before it gets there. `QueryInv`: unless the model is updated in place, the
  places the query gave the collections (`Walk`) are those a call with a buffer gives them,
  as far as it gets (`Measured`).
  The capacity decides only whether the call fails (`Tight`), and the header and
  the clock only what it returns in place of a size.

**Sample codec** (`SampleCodecProofs`), for every width of the registers, field width,
Golomb parameter, spillover threshold, rounding and weight the checks let pass,
and any number of samples:

* `RoundTripCorrect`, `ModelsAgreeCorrect` and `CodeWordsFitCorrect` come from one
  inductive invariant, `CodecInv`: whatever is behind it in the stream, the
  decoder at the start of a sample's bits returns that sample and the start of the
  next (`Behind`), the encoder only appends (`EncodedKept`), and neither side's
  model depends on more than the samples the decoder has.
* One level below: a code word is a run of ones, a zero and a remainder
  (`Shape`), and what `Peek` reads from such bits is the remainder (`Decodes`);
  that the words of `rice_encoder` and `golomb_encoder` have this shape
  (`RiceCode`, `GolombCode`) is about powers of two: the cutoff makes the short
  remainders no prefix of the long ones. `SpillFits` is why an escape symbol
  still has room: the threshold the checks allow leaves a code word within a
  register. `ZeroRecovers` and `MultiRecovers` are the two escape mechanisms, with
  their sums taken modulo the register and the field; `Residual` and `RoundAgain`
  are the signed differences and the lossy rounding.
* From `RegAssumption` and `RangeAssumption` alone, nothing is bounded.

**The sender** (`EntityRoundTripProofs`), for any settings: chunks of any layout the
types allow, any samples, parameters, byte orders, timestamps, identifiers and RDCU
configurations, any number of entities and failures:

* `ParsCheckedCorrect` and `HeaderKeptCorrect` come from one inductive invariant,
  `SenderInv`. What is peculiar to it is that it says what the header reads while the
  entity is not finished: after `cmp_ent_create` size and data type (`Created`), after
  the setters of the chunk or the RDCU each number with identifiers 0 (`ChunkRead`,
  `RdcuRead`), and once more with those of the caller.
* Below it are the bytes: a number that fits into its field is spelled by its bytes
  (`BigEndianSpells`, `GetSpelled`), a list of setters is one header after the other
  (`PutAllIs`, from the recursive function it is), and setters whose fields do not
  touch all hold at the end (`HoldingAll`, `ThreeLists`, `HoldingKept`). Whether the
  fields touch is arithmetic on the offsets of `cmp_entity.h` (`GenericPlaces`,
  `FivePlaces` and the like).
* The same module has the facts about `DataProducts` the next one needs: every
  encoder visits each member of its sample once and with checked parameters (one
  `Order_...` lemma for each data type), the decoder visits the same members in the same order
  (`DecoderOrder`), hence decoding what was encoded with parameters that agree returns
  the samples, rounded (`Decode` of `Encode`, by induction over the samples).

**Both sides** (`EntityDeliveryProofs`), on top of it and for the same constants:

* `AcceptedCorrect`, `ModelsAgreeCorrect` and `DeliversCorrect` come from one inductive
  invariant, `LinkInv`, with `SenderInv`. The properties speak of the ends of a
  journey. In between, the updated model of the instrument is ahead of the ground's,
  collection by collection: `Before` says by which collections and with which models
  they were coded, while the compressor is at work; `After` says which of them
  the ground has caught up with. `AfterFinished` is the return: all of them caught up,
  the models are equal again, and `AfterDelivered`: the output is the chunk.
* It holds for models updated in place, where a collection overwrites what it was
  coded with. This needs that no two collections share a place (`OffsetsDiffer`)
  and that the decompressor takes them in the order and at the places of
  the compressor (`PlaceIs`), from size fields alone.
* A collection stored raw updates the instrument's model by its samples as they are, one that is
  coded by the weighted mean; the ground decides by the size field which of
  the two it was (`NewOf`, `Marked`). That they decide alike is where `Accepted` and `ModelsAgree`
  need each other.
* `DeliversCorrect` is the refinement: the initial states are those of `DataLink`
  (`InitialLink`), and every step is one of its steps or none (`LinkImplemented`).
  Delivering what was sent is a step of the link only if the output is right, which
  `LinkInv` says (`DeliveredAgain`), unless a failure spoiled the model in between.
* Nothing is assumed but `SettingsAssumption`, `ReadingAssumption`, `HeaderAssumption`
  and `BoundAssumption`: what the callers can give at all.

**Induction.** No induction theorem of the library can be used with the provers at
hand. `Arith` states it of a set instead of a predicate (`Induction`: a set of
numbers that has 0 and is closed under successor is `Nat`; from the least element
of a set that lacks one), and derives that a function defined by recursion exists
and satisfies its equation (`Recursion`). That is how `pow2` and `Peek` of
`SampleCodec`, and the offsets, setters and decoders of `EntityRoundTrip`, recursive
functions all, are reasoned about.

**Only model-checked**: `Answered` and `Returns` (liveness is out of the prover's
reach) and the properties of `RdcuRegs` and `RdcuCompress`.

## 6. Not modelled

* Debug output, formatting (`vsnprintf.c`, `cmp_debug.c`), print-outs of
  configurations and headers: no state the properties depend on.
* The command line tool, its files and the search for parameters (`programs`):
  they call the library one function after another; a wrong file is not a
  state of the library. The tests and examples were read, they are no part of
  the program.
* The refill of the decoder's 64-bit register (`read_bitstream.h`): `SampleCodec`
  has what it returns.
* Entities that no compressor of this repository builds: the decompressor's
  errors for them are in `HeaderValid` and `Malformed` as far as they
  can be reached; `Accepted` shows that they are not.
* The data products of the fast cadence (`f_fx` ...), which no chunk may
  hold and for which there is no encoder.
* Allocation of memory, `rdcu_ctrl_init`, `rdcu_rmap_init`; the switch of the
  interrupt signal; the reading and writing of the SRAM mirror byte by byte.
* The composition of `ChunkCompress` with `EntityRoundTrip`: capacities in words and
  contents of fields together are beyond what can be enumerated. The two share
  the layout of an entity: `Parseable` shows it for sizes, `Accepted` for contents.
* The invalid pointers and NULL arguments the functions refuse.
* `CMP_ERROR_DATA_VALUE_TOO_LARGE`: `MAX_USED_BITS` are the widths of the
  fields, so no value exceeds them.
* What may yet be modelled is in section 7.

## 7. What is left

1. A bit reader with a 64-bit register that refines `Peek` of `SampleCodec`.
2. The refinement of the count of open transactions of `SramSync` by the log of
   `RdcuRmap`, and of the abstract link of `RdcuCompress` by both.
3. Theorems about `RdcuRegs`: that a field keeps what was set, for any register and any
   order of the setters, and that the value reaches the register of the RDCU.
4. Theorems about `RdcuCompress`: that a compressor started has the registers of one
   call, for any configurations and any number of calls, when `rdcu_syncing` waits.
