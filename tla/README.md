# pstrings in TLA+

This directory holds a specification of `pstrings`, a parallel `strings(1)` for
many encodings: TLA+ modules translated from the Rust source under `src/src/`,
configurations for the model checker TLC, and proofs checked by TLAPS.

`pstrings` cuts a file into chunks.  Worker threads scan each chunk once per
selected encoding, merge the results by offset, and send the merged file to the
main thread, which writes the strings in chunk order and rejoins those that a
chunk boundary has cut.  Two things must hold, and both are easy to break:

 * whatever the threads, the errors and Ctrl+C do, the output is the chunks in
   order, the program ends, and it reports success only for complete output;
 * the chunk size has no effect on what is found
   (`tests/chunk_size_invariance_tests.rs:4-7`).

The first is the subject of `Pipeline`, the second of `OutputStage`.

## Inventory

| Component | State | Operations | Interacts with | What makes it correct |
|---|---|---|---|---|
| worker pool, `main.rs` | `next_chunk`, `cancelled`, the bounded channel, one thread state per worker | claim a chunk, scan it per encoding, merge, recheck the flag, send | output thread (channel, flag), Ctrl+C handler (flag) | no chunk lost or handed out twice; no truncated file sent; no worker blocked for ever |
| output thread, `main.rs` | `pending_files`, `next_output_chunk`, `output_error` | receive in any order, write in chunk order, flush, join, decide the exit status | workers, output stage | `unwrap` is safe; success means complete; the error reported is the cause |
| output stage, `outputter.rs` | `pending`: per encoding, the record that waits for its continuation | collect the records at the chunk's start, join, orphan, resolve raw bytes, write, drain | records of every scanner | strings written whole, once, in order, whatever the chunk size |
| records, `record.rs`; merge, `merger.rs` | none | append a fragment, order by (offset, encoding) | scanners, output stage | counts follow the payload; never joins raw with text |
| scanners, `scanner/*.rs` | the run in progress, the carry between read blocks | cut a chunk into characters, flag the runs that touch its ends, peek past it or defer raw bytes | records | every run of the file is in exactly one chunk, or in pieces flagged for joining |
| chunk planning, `chunk.rs` | none | `auto_chunk_size`, `parse_size` | `build_config` | the chunks partition the file; no overflow |
| temporary files, `tempfile_helper.rs` | the scratch directory | create, unlink, keep, remove on drop | workers, `run` | nothing left behind, nothing removed that is in use |
| filters, `filter/*.rs` | constant tables | does a filter admit a byte, a unit, a character | scanners | the same character gets the same answer in every chunk |
| `encoding.rs`, `config.rs`, `stats.rs`, `cpu_prio.rs` | parsed arguments, counters | look-ups, formatting | everybody | the checks of `config.rs` are in `ChunkPlan`; the rest changes no modelled state |

The behaviours that are hard: the interleaving of `2 + jobs` threads over one
flag and one channel, with a failure or Ctrl+C between any two steps; the
several checks of `cancelled` that have to be in the right places; the deferred
decision about the characters at a chunk boundary, over any number of chunks and
with several encodings in one merged stream.  `PROJECT.json` lists each hazard
at its line.

## Modules

| Module | Models | Uses |
|---|---|---|
| `Pipeline` | the threads of `main.rs` | |
| `OrderedOutput` | what `Pipeline` promises about the output (abstract specification) | |
| `PipelineProofs` | theorems about `Pipeline` | `Pipeline` |
| `ScratchDir` | `tempfile_helper.rs`, under the threads of `Pipeline` | `Pipeline` |
| `ScratchDirProofs` | theorems about `ScratchDir` | `ScratchDir`, `PipelineProofs` |
| `ChunkPlan` | `chunk.rs`, and the checks of `validate_input_file` and `build_config` | |
| `ChunkPlanProofs` | theorems about `ChunkPlan` | `ChunkPlan` |
| `Records` | `record.rs`, `merger.rs`, `emit_record` | |
| `Filters` | `filter/*.rs` | |
| `Scanners` | `scanner/ascii.rs`, `win1251.rs`, `utf16le_ascii.rs`, `utf8.rs` | `Records`, `Filters` |
| `DbcsScanner` | `scanner/dbcs.rs` and the five encodings on it | `Scanners` |
| `Iso2022JpScanner` | `scanner/iso2022jp.rs` | `DbcsScanner` |
| `Utf16leScanner` | `scanner/utf16le.rs` | `Scanners` |
| `OutputStage` | `outputter.rs`, over the scanners | `Iso2022JpScanner`, `Utf16leScanner` |
| `LeftFold` | what a loop over a sequence keeps, for the proofs | |
| `ScannersProofs` | theorems about the merge of `Records`, lemmas about its sorting and about three of the scanners | `Scanners`, `LeftFold` |
| `OutputProofs` | theorems about `OutputStage`: what is pending, and in which order | `OutputStage`, `ScannersProofs` |
| `WholeFileProofs` | for the encodings of single bytes, how the strings of the file follow from the records of its chunks | `OutputStage`, `ScannersProofs` |
| `WholeOutputProofs` | theorems about `OutputStage`: for these encodings the output is that of one scan | `OutputProofs`, `WholeFileProofs` |
| `MCPipeline`, `MCScratchDir`, `MCChunkPlan`, `MCOutputStage` | instances for TLC | |

The parts meet in the notion of a chunk.  `ChunkPlan` shows that the chunks partition
the file.  In `Pipeline` a chunk's file is only its index and whether it is whole,
since no thread looks inside; `Pipeline` shows that the files reach
`output_merged_chunk` whole, once and in order.  `OutputStage` starts from exactly
that: chunk after chunk, each with all its records, and says what becomes of them.

### Pipeline

One action per step of a thread that others can see: every read of `cancelled`,
the `fetch_add`, the send, the receive, each handle joined.  `wpc` and `mpc` say
where a worker and the main thread are.

 * `WorkerTop`, `Claim`, `BeginScan`, `EndScan`, `EndMerge`, `Recheck`, `Send`
   are `worker_loop` and `process_chunk` in order.  A scan or a merge that may
   have polled the flag (`MayTruncate`) may return `Ok` with a file that is not
   whole, as the code does.
 * `WorkerFails` is `?` in `worker_loop`; the `Sender` is dropped there, and
   `CancelSiblings` sets the flag only afterwards, in the closure.
   `WorkerPanics` unwinds past the closure and sets nothing.
 * `OpenOutput` .. `Finish` are `run` and `run_output_stage`.  `ReceiveTimeout`
   is the timeout that finds the flag set; with the flag clear the loop goes
   round and nothing changes.  `DropReceiver` is the drop of `rx` at the end of
   `run_output_stage`, before `join_workers`.
 * `JoinWorker` joins the handles in order and stops at the first failure.

Left out of the model: what `print_stats` does.  `temp_guard.keep()` cannot fail
(`tempfile_helper.rs:51`).

Fairness (`FairSpec`): weak fairness of each worker's steps and of the main
thread's.  The operating system schedules every runnable thread, a read or a
write ends, with an error if need be, and `recv_timeout` returns.  Nothing
obliges anybody to press Ctrl+C or an operation to fail.

### ScratchDir

Each step is a step of `Pipeline` with what it does to the temporary directory, or
leaves the variables of `Pipeline` alone; so the module is a refinement of
`Pipeline`, which is proved.  Within a scan or a merge a worker creates a file
(`CreateFile`), unlinks its name or keeps it (`DetachFile`), and hands the file on
(`FinishFile`); an error or a panic drops it (`AbandonFile`).  When `run` returns its
guard goes (`DropGuard`): it removes the entries it has listed (`RemoveEntry`) and then
the directory (`RemoveDir`), each a step of its own, because workers that have not been
joined are still at work.  Creating a file needs the directory; without it the
worker can only fail.

One file stands for a scan, though a scan of UTF-16LE makes three.  How
`TempDir` removes a directory is the library's, taken from `remove_dir_all`: list,
unlink, remove.

### ChunkPlan

A request (length of the file, `--jobs`, a chunk size or `auto`, whether UTF-16LE is
selected, the minimum length) goes through the checks in their order: one action per
check, `Halve` for a round of the loop in `auto_chunk_size`.  `u64` arithmetic wraps at
`Word`, and only `jobs * AUTO_CHUNKS_PER_WORKER` needs it: the lengths of files stop at
2^63 - 1, and `parse_size` multiplies with `checked_mul`.  The property
`NothingWraps` says that the remaining sums and products need none.

### Records, Filters and the scanners

Pure operators.  A scanner cuts its chunk into *units* (a character, or a byte to
skip), takes the maximal runs of text units, unit by unit (`TakeUnit`), and flags a run
that touches the start or the end of the chunk.  How units are cut, how far past the chunk a scanner
reads and when a run is flagged differ per encoding and are as in the source; a
payload is the sequence of its characters, each the tuple of its bytes.

 * ASCII and Windows-1251 decode each byte alone, Latin UTF-16LE each pair of bytes.
 * UTF-8 completes the character at the end of the chunk by a peek (`PeekedUnit`).
 * For the double-byte encodings and ISO-2022-JP the leading and the trailing run of
   a chunk are passed on as raw bytes, and the output stage decodes them
   (`SegmentRaw`).
 * ISO-2022-JP is the one decoder with a state: `Walk` carries the mode.  Escapes are
   held until it is known what follows (`TakeEscapes`); a character takes them into
   its run.
 * Full UTF-16LE scans both parities and chooses between runs that overlap.  The sweep
   of `resolve_parity_overlap` is modelled by what it does: it meets every overlapping
   pair of runs, also those of which one is already dropped (`Kept`).

A chunk is read in blocks (`BlockWalk`): the carry, the bytes of an incomplete unit, is
put before the next read (`Block`).  `ReadBufferSize` stands for `READ_BUFFER_SIZE`, which
is 8 MiB in the code and 4 bytes in the instances, the least that holds the longest
character.

Which byte sequences a code page assigns is the constant `Assigned`: it stands for the
tables of the `encoding_rs` crate, and the code only asks it yes or no.  The filter is
part of the input (`filters`).  It concerns ASCII, Windows-1251 and both kinds of
UTF-16LE; the others do not consult it.  Latin UTF-16LE is given no filter beyond
Latin-1: with one it prints the low bytes of the units, as the comment there says.
UTF-16LE is not combined with other encodings in the instances, and its
chunk sizes are even, as `build_config` demands (`main.rs:62`).

### OutputStage

The state is `pending`, the output `lines`, and the place inside
`output_merged_chunk`: before the chunk (`idle`), collecting the records at its
start (`boundary`), in the hot loop (`body`).  One action per record read, since
`cancelled` is polled between them; `process_boundary_records` and
`flush_pending` run to their end and are one step.  `Interrupt` is the flag being
seen, or a read or write that fails.

`Strings(enc)` is what the output should be: the strings of one scan of the whole
file, which knows no chunks, filtered by length at the end.

## Runs

| Run | Instance | Shows |
|---|---|---|
| `pipeline_safety` | 2 workers, 3 chunks, 1 encoding | the safety properties of the threads; they implement `OrderedOutput` |
| `pipeline_full_channel` | 1 worker, 4 chunks, 2 encodings | nobody is stuck, and the run ends |
| `scratch_dir` | 2 workers, 2 chunks, 1 encoding, with and without `--keep-temp` | nothing is left of a run that has joined its workers, and `--keep-temp` loses nothing |
| `chunk_plan` | six-bit words, files of 0 to 31 bytes, up to 63 jobs, every size in units of 1, 4 and 16 | the chunks partition the file, without overflow and without a cut code unit |
| `output_single` | each encoding alone: UTF-8 up to 5 bytes over 5 values (`-m 2`), 4 over 6 (`-m 1`, `-m 2`); ASCII and Latin UTF-16LE up to 7 over 2; Windows-1251 up to 4 over 4, filters `ascii,cyrillic`; CP932 up to 5 over 4; GB18030 up to 7 over 3, `-m 3`; ISO-2022-JP up to 4 pieces of 6 (escapes, ESC alone, NUL, `$`, `/`), 12 bytes | what is found does not depend on the chunk size; the scans deliver what the merge needs |
| `output_utf16le` | up to 5 code units, shifted by 0 or 1 byte, with the halves of a pair, `ascii,kanji-ext-b`, `-m 2`; files up to 6 bytes over 3 values, `ascii,kanji`, `-m 1` | nor for full UTF-16LE, but for surrogates at a cut and for overlapping runs; the choice between parities leaves no overlap, the scans deliver what the merge needs, and joining does not mix the parities |
| `output_mixed` | files up to 5 bytes over 4 values; ASCII with Latin UTF-16LE, and ASCII with UTF-8 and CP932 | what several encodings together still keep, and that the strings of ASCII stay whole among them |
| `utf16le_pair_split`, `utf16le_block_split` | up to 4 code units; up to 5, in one chunk | *violated*, see below |
| `ascii_utf8_split` | files up to 4 bytes, ASCII with UTF-8, `-m 2` | *violated*, see below |
| `gb18030_tail` | up to 4 bytes, GB18030, `-m 2` | *violated*, see below |
| `scratch_dir_left` | as `scratch_dir` | *violated*, see below |

The instances of `OutputStage` are the sets named `...Inputs` in `MCOutputStage`: a
run of the program is a file, a chunk size, a minimum length, the encodings and the
filters, and a behaviour begins by choosing one.

Why the bounds are enough.  Two workers are all the roles there are at the
counter, the flag and the channel (one acts, the other has acted in between), and all
that `ScratchDir` needs: one that fails and one that nobody joins.
Three chunks let two arrive before the one that is wanted.  The full channel
needs more files in flight than `2 * jobs`, hence four chunks for one worker:
two in the channel, one in the hands of the worker, one received.  In `ChunkPlan`
six bits hold every relation between length, size, jobs and the limits of the
automatic choice, on both sides of a wrap.  In `OutputStage`
every file over the alphabet is tried with every chunk size from 1 to its length:
a five-byte file has boundaries inside every character, characters longer than a
chunk, chunks without records, and runs over up to five chunks; with blocks of four
bytes, files of five and more are also cut by a block, at each place inside a
character.  The alphabets have one byte of every class the decoder of that encoding
tells apart.

### Properties

 * `OnlyWholeFilesTravel`, `NextFilePresent`, `NoChunkLost`, `NoChunkTwice`:
   where a chunk's file can be, and that a truncated one stays where it was made.
 * `SuccessIsComplete`, `BlameIsRight`: what the exit status means.  "channel
   closed" and "interrupted" can only be reported after a real Ctrl+C, since a
   failed worker is found by joining first.
 * `NobodyStuck`: the threads never all wait for each other.  `Terminates`,
   `ImplementsOrderedOutput`: liveness and refinement.
 * `NamesAreTransient`, `JoinedRunsCleanUp`, `KeptWhole`: whose names are in the
   temporary directory, when it is gone, and what `--keep-temp` leaves.
 * `ChunksPartition`, `NothingWraps`, `BoundariesOnUnits`: every byte is in one chunk,
   and no boundary cuts a code unit of UTF-16LE.  `EveryWorkerHasAChunk`,
   `HalvingNeedsWrap`: what the automatic choice is for, and that its loop is idle.
 * `WrittenIsPrefix`, `FlushedIsComplete`: for each encoding, the output is at any
   time a prefix of `Strings`, and in the end all of it.  `Strings(enc)` knows neither
   chunks nor blocks.
 * `ScansDeliver`: what the merge and the output stage take for granted of a scan, its
   records in order, at the chunk's end if they are flagged so, and raw where they have to
   be.  `StreamInOrder`: what they make of it.
 * `NoMixedJoin`: the `unreachable!` of `append_data` is.  `PendingIsLive`: what
   waits between two chunks can still be continued.
 * `ByteStringsAreWhole`: the two promises above for the encodings of single bytes, next to
   any others; `ascii_utf8_split` shows that UTF-8 loses them next to ASCII.
 * `NoByteTwice`, `LinesAreFragments`, `NothingLost`: with several encodings, no
   byte is reported twice or invented, and none is missing at `-m 1`.
 * `ParitiesDisjoint`, `CompleteIfUndisturbed`: UTF-16LE, where two readings of the
   same bytes compete.

### What the violated runs show

`ascii_utf8_split`.  The boundary phase of `output_merged_chunk` ends at the
first record, *of any encoding*, that is not flagged as starting its chunk
(`outputter.rs:171`); what is pending and has met no continuation by then is
written as it is.  Records are merged by offset.  If the UTF-8 character at the
boundary was completed by a peek, its continuation starts one to three bytes into
the chunk, and the ASCII record of the same bytes, which starts at the same
offset but not at the chunk's start, comes first: `00 C3 | 81 41` at chunk size 2 and
`-m 2`.  The string is written in two
pieces, or not at all when the pieces are shorter than `--min-length`.  The same
happens to the default pair, ASCII and UTF-16LE, at `-m 1`, when a string on the odd
parity crosses the boundary.  `output_mixed` bounds the damage: strings are
split, nothing is duplicated or invented, and bytes are lost only to the length
filter.

`utf16le_pair_split`.  A chunk that begins with the low half of a surrogate pair
(`00 00 40 D8 | 00 DC 21 00` at chunk size 4) has its first run one unit later;
`run_started` (`utf16le.rs:324`) compares with the first unit only, so the run is
not a candidate and the string is split behind the pair.  The comment at
`outputter.rs:154-162` takes it for granted that it is one.
If the chunk is no longer than the pair, it works: the following chunk starts
exactly where the pair ends.

`utf16le_block_split`.  `read_scan_block` reads one unit past a block whose last unit is
a high surrogate (`utf16le.rs:407`).  If that surrogate is alone and the further unit is
the high half of a pair, the pair is split between two reads and both halves are
dropped: `00 00 40 D8 40 D8 00 DC 21 00` with blocks of two units.

`gb18030_tail`.  A lead, a digit and a third byte before the boundary are an
incomplete four-byte sequence.  If the next chunk cannot continue it,
`drain_pending` drops the three bytes, whereas one scan of the file skips only the
lead and goes on with the two others, which may be text.  They are at most two
characters, so that from `-m 3` on nothing is missed (`output_single`).

`scratch_dir_left`.  If the output cannot be opened (`main.rs:486`), or a worker has
failed and `join_workers` stops there, `run` returns while other workers go on.  One
of them may create a file between the listing of the directory and its
removal, which then fails; the error is ignored and the directory stays.
`JoinedRunsCleanUp` says that this is the only way.

### What the passing properties leave out

`CompleteIfUndisturbed` excepts three cases, and for full UTF-16LE these are all.

 * `TextAfterSurrogateAtCut`: the pair split above, and a lone high surrogate at the end
   of a chunk, whose next unit is read ahead and decoded by both chunks.  The two
   records overlap, do not join, and at `-m 1` both are printed.
 * `PairAfterHighSurrogate`: the block split above.
 * `RunsOverlap`: overlapping runs are settled within a chunk only, as documented
   (`utf16le.rs:472-482`); and in a chain of them the sweep compares a run also with
   one it has dropped, so that it can lose to a run that is itself not reported.

`output_single` checks ISO-2022-JP at `-m 2`.  At `-m 1` the case of `gb18030_tail` returns:
`ESC $` before a boundary and a byte that cannot continue it after, of which
one scan reports the `$`.

Three remarks that no property is about.  An even `--chunk-size` larger than a file of odd
length is clamped to that length and refused for UTF-16LE (`main.rs:49`, `:62`), though the
message tells the user to give an even size (`RefuseOddSize`).  `chunk.rs:90-93`
says that rounding down can leave workers without chunks; it cannot, since a smaller
size gives more chunks, and `HalvingNeedsWrap` shows that the loop has work only after
`jobs * AUTO_CHUNKS_PER_WORKER` has wrapped.  When it wraps to zero (2^61 jobs),
the division panics (`AutoPanics`).

## What is proved

`PipelineProofs`, for every number of workers, chunks and encodings (the three
assumptions of `Pipeline`: each is a positive natural number, as `build_config`
and `validate_input_file` ensure):

 * `TypeCorrect`, `WholeFilesTravel`, `UnwrapIsSafe`, `SuccessMeansComplete`: the
   invariants `TypeOK`, `OnlyWholeFilesTravel`, `NextFilePresent` and
   `SuccessIsComplete`;
 * `Implements`: every behaviour is one of `OrderedOutput`'s safety part.

None of the four is inductive alone.  The invariant `IInv` adds what links a
thread's place to the flag and the output: a worker that holds a truncated file
has seen `cancelled` set, and it still is (`CancelledStays`); the main thread
between its receive loop and the check that follows has the wanted file or the
flag is set; as long as the run is not cancelled, `written` is exactly the chunks
below `nextOut`, whole.  The proof that a step preserves it splits into the
workers' steps (`WorkerActions`, `WorkerSharing`), which leave the main thread's
variables alone, and the main thread's (`MainMoves`, `ReceiveStep`, `TakeStep`,
`WriteChunkStep`, `WriteStopsStep`, `MainStops`), which leave the workers' alone.

In the second half of `PipelineProofs`, under the same assumptions:

 * `Accounts`, and from it `ChunksAreKept` and `ChunksAreUnique`: the invariants
   `NoChunkLost` and `NoChunkTwice`;
 * `BlameIsEarned`: `BlameIsRight`;
 * `NoCircularWait`: `NobodyStuck`, the safety half of `Terminates`.

The invariant is a ledger (`Ledger`).  `Copies(c)` counts the places of a chunk: the
hands of the workers, the channel, `pending_files`, what was taken, what was
written.  A claimed chunk has one copy; or none, and then somebody has a reason to stop
the run; one that is not yet claimed has none.  Every step either moves a copy (one less
here, one more there), makes the first (`Claim`), or loses one together with the
reason.  The counts are cardinalities, so the lemmas on the way say what `Append`, `Tail`
and a change of one worker do to them.  For the blame the hard case is "channel
closed": when the channel is disconnected with every worker ended well, the ledger
says that the wanted chunk is written or still at hand, so that only a real Ctrl+C can
have led there.

`ScratchDirProofs`, under the same assumptions:

 * `ScratchImplementsPipeline`: the threads with their temporary directory are a
   refinement of `Pipeline`, so that everything proved of it holds of them
   (`ScratchSuccess` says so of `SuccessIsComplete`);
 * `ScratchTypeCorrect`: `ScratchTypeOK`;
 * `NoNameIsLeft`: the invariant `NamesAreTransient`.  The strengthening is
   `HeldOnlyAtWork`: a worker has a file only while it scans or merges, so that the steps
   that end its work give the file up.  A step of one worker leaves the others, and with
   them their names, where they are (`OthersStay`);
 * `JoinedMeansClean`: `JoinedRunsCleanUp`.  When all workers are joined none is at work,
   so no name is left and none can come (`JoinedLeaveNothing`);
 * `KeepTempKeeps`: `KeptWhole`.  A worker that fails unlinks the name it is on, which must
   not be that of a file somebody has finished: `KeptInv` says which names are there for
   each file in a worker's hand or further on, and the ledger that nobody else has the
   worker's chunk.

`ChunkPlanProofs`, for every word width, every set of requests and all constants of the
automatic choice (the assumptions of `ChunkPlan`: files are shorter than half a word;
the powers of two are what their name says, as `floor_power_of_two` needs; the least and
the largest automatic size are among them):

 * `TypeCorrect`: a size that was settled on is not zero;
 * `Partition`: the chunks partition the file (`ChunksPartition`);
 * `NoOverflow`: `NothingWraps`;
 * `LoopIsIdle`: `HalvingNeedsWrap`, a statement about integer division: what
   was rounded down to a power of two fits at least as often into the file;
 * `UnitsStayWhole`: `BoundariesOnUnits`;
 * `NobodyIsIdle`: `EveryWorkerHasAChunk`.

The invariant there adds that a size never exceeds the file or the largest automatic
size (`SizeIsBounded`), and that as long as nothing has wrapped, the size found is the
least or fits into the file as often as chunks were wanted (`FoundByRoundingDown`).  That
every worker has a chunk needs also that the size stays a power of two, not below the
least, and that the loop is left only when there are chunks enough (`FoundSizeInv`).

`ScannersProofs`, for any number of streams of any length over records with an offset and
an encoding:

 * `MergeTakesAll`: a merge is a reordering of its streams: every record is in the result
   exactly once, those of one stream in their order;
 * `MergeIsInOrder`: of streams in order it is in order.

Both are inductions over the steps of the merge, whose invariant (`Consumed`) says how
much of each stream was taken.  The provers cannot instantiate the induction
theorems of the library, which have an operator as their parameter.  `LeftFold` states
induction as a fact about *sets* of numbers, by least counterexample (`LeastNatural`,
`UpTo`), and carries it over to a loop, which the model writes as `FoldLeft`: the module's
parameters are the body of the loop and what it should keep, so that an `INSTANCE` of it
takes the place of a theorem with operator parameters.  Its lemma `FoldKeeps` is about loops, not
about this code: what it is used for is in the theorems below.

`OutputProofs`, for all files, configurations and tables of the code pages (the
assumptions of `OutputStage`: an input is a file of bytes, a selection of the encodings
there are, and a chunk size that is not zero):

 * `StreamStaysInOrder`: `StreamInOrder`;
 * `KindsNeverMix`: `NoMixedJoin`;
 * `TextStaysLive`: `PendingIsLive`, unless an encoding is selected that is decoded late.
   What is left over of raw bytes may stay inside its chunk, and that it then decodes to
   nothing is left to TLC.

These are stated for behaviours in which `ScansDeliver` always holds, that is, of the
merge and the output stage given scanners that do their part.  The invariant `StageInv` says
of `pending` that under each encoding is a record of that encoding, flagged as reaching its
chunk's end (`Keyed`); that in the hot loop the text among them does reach the end of the
current chunk (`Continues`), so that after it they reach the start of the next
(`PendingReaches`); and of the records that wait that one which touches a boundary is raw
exactly if its encoding is decoded late (`Proper`).  The hard part is
`process_boundary_records`: a record joined to what was pending ends where the second of
them does (`JoinedIsProper`), and of what was pending from an earlier chunk nothing is left
(`BoundaryKeeps`).  The four loops of `outputter.rs` are instances of `LeftFold`.

That the scanners do their part is proved for the three that decode every byte or every
aligned pair alone, ASCII, Windows-1251 and Latin UTF-16LE; the default is the first and the
last:

 * `UnitScansDeliver`: `ScansDeliver`, if only these are selected;
 * `UnitOutputIsSound`: for them `StreamInOrder` and `PendingIsLive`, with nothing assumed of
   the scans.

`ScannersProofs` has the lemmas as well.  The invariant of a scan's loop (`ScannedSoFar`) says that
the runs start one after the other and that the open one goes up to the last unit taken:
hence the records are in order, and one that is flagged as reaching the chunk's end
does.  `emit_record` drops records and keeps the order (`EmitDelivers`), and the two
parities of UTF-16LE go through the merge (`MergeIsInOrder`).

`WholeOutputProofs` proves what the tool is about, that the chunk size has no effect on what
is found, for the encodings of single bytes, ASCII and Windows-1251, and again for all files,
chunk sizes, filters and minimum lengths:

 * `ByteOutputIsWhole`: `WrittenIsPrefix` and `FlushedIsComplete`;
 * `ByteLinesAreSound`: `NoByteTwice` and `LinesAreFragments`;
 * `NoByteIsLost`: `NothingLost`;
 * `ByteTypeCorrect`: `TypeOK`, with the counts of bytes and characters of what was joined.

These four assume that nothing else is looked for, and nothing twice (`ByteInputs`); of the
scans they assume nothing.  Next to other encodings:

 * `DefaultStringsAreWhole`: `ByteStringsAreWhole`, if the others are at most UTF-16LE restricted to
   Latin-1, which with ASCII is the default;
 * `ByteStringsStayWhole`: the same next to any encodings that are not decoded late
   (`TextInputs`), UTF-8 and UTF-16LE among them, in behaviours in which `ScansDeliver` always
   holds.

`ByteStringsAreWhole` speaks of encodings that are selected once (`Once`): of one selected
twice it does not hold, since `pending` has one place for both (`config.rs:21`).

The argument goes in three steps.  First, a scan.  Every byte is text or not (`Text`); the
invariant of the loop (`BytesAt`) says which runs are closed and where the open one began, so
that a scan delivers exactly the maximal pieces of text between two cuts, flagged where they
touch one (`ScanHolds`), and a scan of the whole file its maximal runs (`WholeFileRunsAre`).
The merge of all streams keeps those of one encoding as they are (`MergeHolds`).

Second, where the output is.  At any time there are offsets `q <= p` (`Reached`): every string
that starts before `q` has been written, in order, and nothing else of this encoding; the
text at `q .. p - 1` is in `pending`, as one record; and the records that are still to be handled start at `p` or behind it.
No text ends at `q` (`Frontier`), so that a run is never written in part.

Third, the steps.  `WholeInv` says this of every phase: between chunks `p` is the start of the
next (`AtRest`), while the boundary's records are collected it is this chunk's start
(`AtStart`), in the hot loop it grows with each record (`InChunk`).  One encoding's records are
followed through the loops of `outputter.rs`, which handle all encodings together, with
`LeftFold`.  The hard part is again the boundary: the continuation of what is pending starts at
the chunk's first byte, and `ScansDeliver` says that every record there is flagged so, hence
it is collected before the phase ends (`CollectedApart`, `BoundaryJoined`); if nothing
continues it, there is no text at the boundary, and it is written as an orphan
(`NoTextAtStart`, `BoundaryOrphan`).  A chunk without any records is the case apart: what is
pending is drained, unless all of it reaches past the chunk, which for single bytes it does
not (`NothingCollected`).  `StageInv` and `NoneDeferred`, that no encoding is decoded late, are
part of the invariant.  TLC cannot
evaluate `WholeInv`, whose offsets are any numbers; it checks what follows from it.

The argument needs that sorting is stable and keeps everything, which is proved of the
insertion that `Sorted` is (`Place`, `Insert`).

Only model-checked: liveness (`Terminates`), which is beyond the prover; `ScansDeliver` for
the scanners that decode several bytes together, whose `Walk` is recursive over them, and with it
whatever is said of their strings (`TypeOK`, `WrittenIsPrefix`, `FlushedIsComplete`,
`NoByteTwice`, `LinesAreFragments`, `NothingLost` for them and for Latin UTF-16LE,
`ParitiesDisjoint`, `CompleteIfUndisturbed`); and `PendingIsLive` and `ByteStringsAreWhole` next to encodings that are decoded late.

## What is not modelled

 * The serialized form of a record: `write_record` and `read_record` are inverse to
   each other for the records the scanners emit, and a file is read only after it
   was written to its end.
 * The layout of a line, the spelling of arguments, the text of messages.
 * Statistics: counters that are only added to and printed after the run.
 * The filters `jis-level1` and `jis-level2`, whose tables `encoding_rs` generates, and
   the tables that `FilterSet` makes of the filters' answers.
 * Positioned reads (`read_exact_at`): a read yields the bytes or fails.
 * Thread priority: one call into the operating system, without a state.
 * An encoding selected twice (`-e ascii,ascii`): `pending` has one place for both, and
   nothing in the repository says what the output should be.

## Plan

1. `Pipeline`, its abstract specification and its first proofs. *(done)*
2. `Records`, `Scanners`, `DbcsScanner`, `Utf16leScanner`, `OutputStage`. *(done)*
3. ISO-2022-JP, Windows-1251, the filters. *(done)*
4. Chunk planning, with the theorem that the chunks partition the file. *(done)*
5. Block reads inside the scanners. *(done)*
6. The temporary directory against detached workers. *(done)*
7. Proofs of the safety properties of the threads, of the temporary directory and of chunk
   planning; of the merge, and of the output stage given its scanners. *(done)*
8. `ScansDeliver` proved for the scanners that decode each byte or unit alone. *(done)*
9. For the encodings of single bytes, the proof that the output is that of one scan of the
   whole file, whatever the chunk size. *(done)*
10. The same for the two parities of Latin UTF-16LE; `ScansDeliver` for the scanners that walk
   over characters.
