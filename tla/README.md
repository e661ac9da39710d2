# The guitar pedal's firmware in TLA+

This directory specifies the firmware of the Daisy Seed guitar pedal: the
neural amplifier, the cabinet convolver, the effects, the controls, the screen,
and the data image in flash from which it all starts. The modules are written
from the C++ and Python under `src/` (paths below are relative to it). TLC
checks small instances of them; the proof modules prove, with TLAPS, what
matters most for every value of the constants.

## The system

Three things run in the firmware, and most of what can go wrong lies between
them.

* The **main loop** (`main.cpp`) polls the controls, runs the modes of the user
  interface, switches presets, allocates and frees. It sends the display its
  one frame buffer strip by strip, a few strips in each iteration; sending a
  strip blocks (`display/st7789_driver.cpp:155`).
* The **audio interrupt** fires for every block of 48 samples, at any
  instruction of the main loop, and runs to its end before the main loop goes
  on. It renders a block through `AudioEngine::Process`, samples the encoders
  and, in tuner mode, fills the tuner's ring.
* The **USB callback** assembles lines from packets and restarts the pedal in
  its bootloader on a command. It shares no state with the rest.

A PC-side tool packs models, cabinets and presets into an image that another
tool writes to flash; the firmware reads it in place.

| Part | State it keeps | Operations | Talks to |
|---|---|---|---|
| Audio engine (`AudioEngine.*`) | active model and cabinet pointers, their owners, levels, bypass, mute | `Process` in the interrupt; swaps and setters in the main loop | rendered from by the interrupt while the main loop swaps |
| Preset manager (`PresetManager.*`) | presets in RAM, the current one | `Init`, `ApplyPreset`, `Next`, `Prev` | engine, models, cabinets, partition |
| Model manager, cabinet loader (`ModelManager.*`, `IRLoader.*`) | directory of models; arena in use | `Init`, `Load`, `LoadIrFromQspi` | heap, partition, engine |
| Equaliser (`Eq3.*`) | two buffers of coefficients, index, enable bit with generation, filter history | `SetBand` in the main loop, `Process` in the interrupt | shared without a lock |
| Echo (`PedalEffects.*`) | ring, write index, delay, on/off | `SetDelay`, `Process` | set while the engine is muted |
| Convolver (`PartitionedConvolver.*`, `RealFft128.*`) | ring of spectra, overlap, delayed block | `Init`, `Reset`, `Process` | run by the engine |
| Controls (`Controls.*`, `footswitch_chord.h`) | debouncers, latches, chord state | `Process` | events to the main loop |
| Encoders (`QuadEncoder.*`, `quad_decode.h`) | two shift registers, a counter | `PollIsr` in the interrupt, `Drain` in the main loop | the counter is shared |
| Modes (`main.cpp`, `ui_mode.h`) | mode flags, cursor, form, dirty mark | an iteration of the loop | presets, engine, screen |
| Tuner (`TunerDetector.*`) | ring, write index, decimator; window and difference function | `PushAudioBlock` in the interrupt; `Analyze`, `Reset` in the main loop | ring shared without a lock |
| Screen (`Ui.*`, `display/*`) | what to show, dirty mark, frame buffer, transfer | `Show...`, `Update` | panel, strip by strip |
| Heap (`SdramHeap.cpp`) | break, counters | `_sbrk` | C library's allocator |
| Boot command (`BootloaderCommand.*`) | the line so far | `Feed` in the USB callback | restarts the pedal |
| Partition (`QspiStorage.*`, `data_format.h`, `tools/*`) | header, directory, blobs | pack, write, `Init`, look-ups | read in place at boot |

### What is hard, and what makes each part correct

* **Switching presets under a running interrupt.** The objects the interrupt
  uses are replaced one by one and freed, in a heap that cannot hold two
  models, with loads that fail. Correct: no dangling or half-built object, no
  leak, at most one model, and every block comes from one whole preset or is
  silent.
* **Publishing coefficients without a lock.** Correct: never a torn band, no
  filter history from before the equaliser was last flat, however many blocks
  passed it by, each call takes effect at one moment.
* **Two switches read through bounce.** Correct: a chord never also steps to
  another preset and costs each switch one later tap at most, a contact that
  stays closed holds once, a chord that is held fires.
* **Modes as flags, screens as copies.** Correct: one mode at a time, what is
  on display is what the knobs act on, no press of the encoder does two things,
  an edit is private until applied.
* **A ring written by the interrupt while it is copied.** Correct: the window is
  unbroken, of this session, and comes.
* **A pitch from a window with many dips.** Correct: the pitch lies at a real
  dip and is not below the tone's own (but for half a sample of interpolation).
* **A frame buffer sent over many iterations.** Correct: no torn frame, no lost
  update, across a wrap of the clock too.
* **Frames painted in layers by code that does not clip.** Correct: nothing is
  written outside the buffer or over what was to be read.
* **A counter that both sides write.** Correct: no detent lost or doubled.
* **A line in a fixed buffer, cut into packets.** Correct: the command on a line
  of its own restarts the pedal, and no other line does. The code keeps this for
  lines that fit the buffer.
* **A break that moves between memories.** Correct: disjoint, mapped grants. The
  code keeps the second until SRAM has been filled to its last byte.
* **An image that may be cut off, foreign or old.** Correct: no read outside
  the partition, whole images served as packed, always a preset, and each plays
  the assets and the numbers that were written for it.
* **Index arithmetic of the convolver and the echo.** Correct: the output is
  that of the textbook definition.

`PROJECT.json` lists each hazard at its line.

## Modules

| Module | What it is |
|---|---|
| `AudioEngine` | state shared with the interrupt, heap objects, the operators of the engine; no behaviour of its own |
| `AtomicSwitch` | abstract: a switch installs a whole configuration in one step, silent until it ends |
| `PresetSwitch` | `ApplyPreset`, `Load`, `LoadIrFromQspi`, the swaps and the interrupt, one action per store another actor can see; implements `AtomicSwitch` |
| `AtomicEq`, `Eq3` | abstract: a call changes one band at once; detailed: the stores of `SetBand` and the interrupt between any two |
| `Controls` | a call of `Controls::Process` with any contact samples |
| `Pedal` | an iteration of the main loop with any events |
| `Tuner` | `Analyze` split at its reads, blocks in between, entering and leaving |
| `Yin` | what `Analyze` makes of the window it captured |
| `Display` | `Show...`, `Update`, the strips of the transfer, the clock |
| `Drawing` | the boxes each `Render...` paints, in order |
| `BootLine` | packets of the USB port, the line they add up to, the restart |
| `QuadEncoder` | a knob, its contacts, the interrupt's samples and the main loop's drains |
| `SdramHeap` | `_sbrk` with every request, those of newlib that give the top of the heap back included |
| `DataImage` | packing, erasing and writing an image, cutting it off, booting from what is there, and what a preset then gives the engine |
| `DirectFir`, `Convolver` | abstract: direct convolution one block late; detailed: overlap-add over a ring of spectra |
| `DelayLine` | the echo's ring, sample by sample |
| `...Proofs` | theorems about the module of that name; `InputProofs` is about `Controls`, `QuadEncoder` and `BootLine`, `RingProofs` about `Tuner`, `Yin`, `DelayLine` and `Convolver`, `DisplayProofs` about `Display` and `Drawing`. Modules that one module extends have names of their own for what each has (`EqSpec`, `HeapSpec`, `KnobInit`, `LineNext`, `EchoSpec`, `CabinetSpec`, `YinSpec`, `DrawSpec`) |
| `MC...` | values of the constants for TLC. `MCPresetSwitch`, `MCInputs`, `MCSignal` and `MCDataImage` hold modules that share no state: a variable `part` says which of them a behaviour moves. In `MCDisplay` it may move first one and then the other. `MCControls`, `MCYin`, `MCSdramHeap` and `MCBootLine` have the values for one module, for the runs above and for runs of its own |

How state and actions follow the code:

* `PresetSwitch`: `pc` is the place in `ApplyPreset` between two stores; locals
  of the C++ (`old_model`, `new_ir`, ...) are variables. `Begin` mutes, then
  `ApplySetting` walks through the setters in the order of
  `PresetManager.cpp:91-111`, the model stage nulls, deletes, builds, resets,
  moves and stores, the cabinet stage builds, moves, stores and deletes, and
  `Unmute` ends it. `AudioBlock` is the interrupt, enabled everywhere once the
  audio is started. `LiveEdit` is a knob turned between switches. An address
  that was freed may be handed out again. What a block was rendered from stands
  for its samples.
* `Eq3`: the copies of `Publish`, the flip of the index, and the store of the
  word that holds the enable bit and the generation are steps of their own;
  `ProcessEq` is one step of the interrupt, for each block that reaches the
  filter. Nothing makes it happen: any number of muted or bypassed blocks, which
  return before it (`AudioEngine.cpp:22-39`), may pass between two calls.
  `history` says what the filter's memory is worth: it goes stale the moment
  every gain is 0, and it is *played* if a block is filtered with it then.
* `Controls`: the debouncer is described by its newest level and the length of
  its run, all that `Pressed`, `RisingEdge` and `FallingEdge` of libDaisy's
  switch (external) depend on. The clock may not have moved since the last call.
  `reopened` and `longed` are histories that no step reads: whether the contact
  has read open since the last hold, and whether the press has been held.
* `Pedal`: one record holds the globals of `main.cpp`; an action is a whole
  iteration, its handlers composed in the order of the code, so that several
  events of one call act one after the other. Screens are copies, as in the
  code. Of the five level and EQ knobs one level and one EQ band stand for all.
  `picked` and `listed` are histories of the press that lasts: whether it has
  switched the preset from the list, and whether it began there.
* `Tuner`: the abstract sample is the session and index it was stored with.
  `write_idx_` wraps. `Yin`: samples are integers, some sounds are notes
  (`Tone`) and others mixtures, the normalised difference is rounded to thousandths, a lag is a fraction; the steps and their early
  returns are those of `Analyze`. Its window (`Span`) is longer in the run than
  the one that is captured: no lag fits into three samples.
* `Display`: a row of the panel is the content it was last sent.
* `Drawing`: a frame is the sequence of boxes painted after `Clear`, at the
  coordinates of the code; a text is its length. `FillRect` does not clip, and
  neither do the boxes made from it; `PutPixel` does.
* `BootLine`: `line_` up to `length_`, and the bytes received since power-on as
  a history that no action reads.
* `SdramHeap`: `granted` is what callers hold, less what they have given back
  from its top. A request of 0 or below is only made of memory that is held.
* `QuadEncoder`: a detent is four phases of the contacts, which may chatter
  after each change. The knob does not move again while a register is still
  filling, and turns back only from a detent.
* `DataImage`: a flash cell is a small number or a piece of a blob; numbers are
  32 bits wide in the code and wrap at `MaxWord` here. The download may stop
  after any sector. A preset's record has one unit if it ends with the levels
  (74 bytes), two with the EQ (98) and three with the effects (138; `Kept`).
  `Trim` may be 0, which is no limit. Five numbers of a preset stand for the five rules by which
  `ApplyPreset` clamps them and tells a given one from a missing one.
* `Convolver`: exact circular convolution stands for forward transform,
  product and inverse; what `DirectFir` promises (`taps`, `past`, `out`) is kept
  beside the state of the code. `DelayLine`: a cell holds the age of its sample.

## Runs

Each run answers one question. `expect: pass` runs end without an error.

| Run | Question | Bounds, and why they are enough |
|---|---|---|
| `preset_switch` | Can a block ever see a bad pointer or a mixed preset? Can a switch leak, double the models, or never end? And where its memory comes from: are grants of the heap disjoint, and mapped, through the jump and out of memory? | Three addresses: the live model and cabinet and the cabinet being built are the most that can exist, and one more model would need a fourth, so reuse of a freed address happens. Four presets: two models, none with bypass, none without. Every load may fail. The heap in units of memory: SRAM 1-8, SDRAM 12-20, requests of -4, 0, 3 and 5: SRAM is filled exactly or not, grants are given back in part and across one another. |
| `exact_fit` | Is every grant mapped, as the file's first comment has it? (`violation`) | As above. |
| `signal` | Can the interrupt see a torn or stale equaliser? Is every echo exactly as old as asked, and never from before a clear? Is the cabinet the direct convolution, one block late? Is the tuner's window whole and of this session, does it come, and is the pitch found in it true? | *Equaliser:* two bands, four curves, two of them flat; the generation wraps at 3 and at most two flat transitions fall between two blocks that reach the filter (2^31 in the code, which no hand turns). *Echo:* a ring of 9; times below, at and above its length. *Cabinet:* blocks of 2, transforms of 4, up to 3 partitions, 1 to 5 taps and one too long; powers of two as taps, so that sums identify their terms. *Capture:* ring of 8, window of 3, index wraps at 16, blocks of 3 samples decimated by 2, at most three blocks within one copy: the ring's slack, in proportion less than the code's. *Analysis:* windows of 32 with lags of 2 to 15: triangles of every third of a sample from a period of 1.7 to 20, steady, dying and in pairs, and every pattern of three values of period 7 or less, so that dips are flat, lopsided, at both ends of the range, and missing. |
| `mixed_pitch` | Is a mixture of two notes left without a pitch? (`violation`) | The windows of `signal`. |
| `pedal` | Do mode, screen, mark, RAM and engine agree, and does a press of the encoder do one thing? | Two presets, one of them with a model that fails to load; levels 0 and 1; the form's model and bypass fields (cabinet and gain change as they do). |
| `form_from_list` | Does a long press that begins on the list open the form? (`violation`) | As above. |
| `display` | Does a frame stay in the buffer, can it be read but for the mark of unsaved edits and long names of presets, does it reach the panel whole and last? | Drawn at the code's own coordinates: names of 0 to 30 letters, levels at, between and beyond the ends of each meter, lists of 1 to 32. On the way: two and a half rows, one row a strip, 3 ms a frame, a clock that wraps at 8. |
| `mark_shown` | Is the mark of unsaved edits visible when there are some? (`violation`) | As above. |
| `inputs` | Can a chord leak a tap or swallow more than one, a contact that stays closed hold twice, a chord be missed? Is a detent of a knob lost or doubled? | *Footswitches:* three samples of debouncing, chord after 2 ms, hold after 4: the order 8 < 350 < 800 of the code. Contacts bounce at every sample; 0, 1 or 2 ms pass between calls. *Knob:* registers of 3 samples, 2 samples of chatter, two detents either way, drains that cannot overflow (the code drains thousands of times a second). |
| `hold_is_tap` | Is a release after a hold also a tap? (`violation`) | One sample per ms and contacts that keep their level for as long as the debouncer looks, so bounce is not the reason. |
| `image` | What does a boot make of whole, cut-off and overwritten images, and a switch of the presets it finds? And the line that lets the next image in: is anything but the command taken for it? | Sectors of 4 cells, a partition of 6 sectors, ten images among which a directory that straddles sectors, one that fills the partition, one too large, one of another version, one with more models and one with more presets than the firmware has room for (two of each); foreign words 7, 24 and 31 reach every comparison and wrap. Presets with numbers in and out of range, 0, left out, and of both older packers; a cabinet that is too long even when trimmed. A command of 2 in a buffer of 4, packets of 1 or 2 and streams of up to 7 bytes: a line outgrows the buffer and still ends with the command. |
| `whole_line` | Does only a whole line that is the command restart the pedal? (`violation`) | As above. |

Every property of a passing run has a mutant in `PROJECT.json`: a plausible slip
(the operators commented `Slip` next to the definition they vary), with which
TLC finds the property violated.

### Fairness

* An interrupt that has begun returns, and the codec's DMA keeps delivering
  blocks (`WF` of the interrupt's step).
* The main loop never ends and calls each poll in every iteration (`WF` of its
  steps); it is not starved because a block takes less than its period. Loads
  end, with a result or a failure.
* Time passes. A strip is sent within the iteration that begins it.

Where a run holds several modules, the fairness is that of the ones that have
liveness properties, and applies while the behaviour is in that part. The
equaliser's interrupt is under no fairness: its properties hold if it never
comes.

Nothing is assumed of the player: turning, pressing and releasing are never
fair. `ChordFiresWhenHeld` and `AllReported` are therefore conditional on the
contacts staying where they are, or on the knob resting.

## Proofs

| Theorem | For every ... | Argument |
|---|---|---|
| `PresetSwitchProofs`: `TypeCorrect`, `PointersSafe`, `OneModel`, `HeapBalanced`, `ModelResolved`, `OnlyNaming`, `Implements` | set of addresses, models, cabinets, presets and settings | `Inv` = types, `ModelInv` and `IrInv` (which addresses hold a model or a cabinet at each place of `ApplyPreset`, and which of them the interrupt sees), `SettingInv` (which settings have been written) and `ResolvedInv` (what the model stage has decided). `NoDanglingPointer` alone is not inductive: a delete is safe because the active pointer was moved *before*, which only the place in the code tells. `OnlyNaming` follows step by step: only the stores of the model stage change the active model, and at them the preset names one. `Implements` maps each step to a step or a stutter of `AtomicSwitch`. |
| `Eq3Proofs`: `WholeCurves`, `HistoryFresh`, `EqImplements` | set of bands and curves, and counter wider than the flat transitions between two blocks that reach the filter | `BufferInv` (the published buffer is whole; how far the other is copied), `FlagInv` (bit, generation and gains), `HistoryInv` (stale history implies that the filter is off or that the generations differ, by their distance in modular arithmetic). |
| `InputProofs`: `ChordSafe`, `HoldOnce`, `OneTapPerChord` | debouncing width, times, bounce | `LatchInv`: a switch that was in a chord is either still suppressed or has its release latch set. `PressInv`: a press that was reported as held stays long until its contact opens (`HoldInv`), and a long press that was not reported is one the chord suppresses (`LongInv`), so there is no second report before the contact opens; a switch that has lost a tap has no release latch left to lose another (`LostInv`). |
| `InputProofs`: `NoneLostUnlessClamped` | length of the registers, chatter of at most that length, reach, clamp | `KnobInv`: a contact that has been quiet long enough has filled its register (`ContactInv`); the place of the knob in its turn tells the levels of both contacts and whether this detent's edge has been counted (`TurnInv`); and what was reported and is pending is what was turned plus the detent counted ahead (`Ahead`). It assumes that no drain finds more than it can hold. |
| `InputProofs`: `RebootsOnlyOnCommand` | bytes, command, buffer that holds it, packets | `ParserInv`: what the parser holds, and that it has overflowed, is what it would remember (`Remembered`) of the bytes since the last line end. What it remembers of a line that fits the buffer is the line, and of a longer one its end, so what it takes for the command is what `RebootsOnCommandOnly`, which knows nothing of the parser, allows. A packet is a fold of its bytes, so the step is an induction along the packet. |
| `PedalProofs`: `ScreenAlwaysTrue`, `CleanAlwaysPreset`, `PressDoesOneThing`, `FormPrivate`, `FormNamesTrue` | presets, assets, fields, detents | `PedalInv`: the loop is in one of four kinds of state (`Playing`, `Listing`, `Forming`, `Tuning`), each with its flags, its screen and `Clean`, and a press that has switched the preset from the list has left the list (`PressInv`). One lemma per handler says which kinds it leads from and to, so the handlers compose in any order that an iteration calls them. `FormNamesTrue` assumes that flash has every model and cabinet that the presets name, and that each names a model unless flash has none; applying a form keeps this. |
| `RingProofs`: `WindowAlwaysUnbroken`, `PitchAlwaysOfSession` | ring, window, index width, blocks | `CaptureInv`: sample `m` of the session, among the latest that fit, is in cell `m % RingSize` (`RingHolds`); the copy so far is what it was to copy, and the samples that blocks have stored since it began are fewer than the ring has to spare over the window (`CopyHolds`, by the `Slack` that `TunerAssumption` bounds). The index wraps, so this is arithmetic of remainders; lemmas on those come first. |
| `RingProofs`: `EchoTypes`, `EchoAlwaysExact` | ring length, times | `EchoInv`: the age of every cell of the echo's ring is its distance from the write index, or the cell is silent. |
| `RingProofs`: `PitchAlwaysTrue` | window, lags, threshold, precision, sounds | One analysis. A sound of period `p` that is not flat is not flat within the terms of the difference either (`NotFlat`: the first place where it changes, less a period, would be an earlier one), so the difference is 0 at `p` and not at 1, and the normalised one 0 at `p` (`NormalisedIs`). The descent ends in a dip lower than the lag before it, no higher than the one behind and not behind a zero (`BottomIs`); the vertex of such a parabola is within half a sample of it (`VertexNear`), so the test for the range never discards it. |
| `RingProofs`: `CabinetInvariant`, `CabinetPlaysDirectly` | block, transform, taps, partitions, input | The refinement of `DirectFir` with the identity as mapping. `CabinetInv`: the slot of `b` blocks ago holds that block (`SpectraInv`), the overlap is the second half of what the transforms make of the blocks heard (`TailInv`), the block of delay is the direct convolution that comes next (`DelayInv`). The heart is `OverlapAdds`: of a circular product of a block and a partition the first half is what the block adds to itself and the second what it adds to the next (`CircularHead`, `CircularTail`), together the taps of that partition times the samples they reach (`HeadAndTail`, `PartitionTerms`), and partition by partition the whole sum (`RowsAdd`, `LateTerms`). The library's sums take elements in an order it leaves open; lemmas on sums first show that the order does not matter. |
| `DisplayProofs`: `DisplayTypes`, `NeverTorn`, `RestingPanelAgrees` | content, rows, strips, clock | `DisplayInv`: offset and rest of a transfer add up to the frame; what has been sent is the buffer; and the buffer agrees with what is to be shown unless the mark is set. |
| `DisplayProofs`: `FramesInPlace`, `FramesLegible`, `CursorAlwaysShown` | names of up to 30 letters, levels, lists, cents | A frame is taken apart into the stretches of the code that paint it. Of each: where its boxes lie (`Sound`), and that all its boxes start at or below one row and its texts end above another, so that stretches stack (`Stacked`) and a frame made of them is `Layered`. Fills and thumb are arithmetic of quotients; rows joined by `FlattenSeq` go by induction on their number, highlighted entries are counted by cardinalities. |
| `SdramHeapProofs`: `GrantsNeverOverlap`, `MappedUntilExactFit` | memory map, requests, returns | `HeapInv`: all that is held lies below the break and is disjoint (`BreakInv`); a break between the two regions means that SRAM is full (`GapInv`). A request that is granted starts at the break or where the jump lands (`BaseIs`); giving back cuts the grants at the new break, which stops in the gap only on a grant that has a full SRAM below it. |
| `DataImageProofs`: `BlobsStayInPartition`, `ImageServed` | image, former content of the flash, sector, partition, interrupted writes | `SeenInv`: what `Init` accepted satisfies `Valid`, whose subtraction cannot wrap. `ImageInv`: the cells the bootloader has passed are the image's (`WrittenInv`), the entries the firmware has read are the packer's (`ReadInv`). First the packer's layout: blobs lie one behind the other, so no two pieces share a cell. |
| `DataImageProofs`: `PresetsAlwaysPlay` | the same, limits of the firmware, numbers of a preset | To `ImageInv`, `NamesInv` (whatever the flash held, a name the firmware reads is a name) and `IndexInv` (models and presets are those the directory lists, in its order, up to the limits). The searches for an asset of a preset then find the entry of that name, since no other of its type has it; and number by number what the packer writes and the firmware clamps or replaces is what the preset says. |

They rest on the `ASSUME`s of the modules, which TLC evaluates in the runs, and
on the hypotheses named above. Those of `FormNamesTrue` and `PresetsAlwaysPlay`
(no two models or cabinets of an image share the part of their names that an
entry holds: `NamesApart`) exclude what the Disagreements below describe; that
of the knob is that the main loop drains it before its count overflows. Induction on numbers (sectors, files, list
entries, bytes, rows, ranks) goes through the least counterexample, `WFMin` of
the library.

Model-checked but not proved is liveness (`SwitchEnds`, `ChordFiresWhenHeld`,
`WindowComes`, `Settles`, `AllReported`), which is beyond this prover. Every
other property of a passing run is a theorem. `PitchAlwaysTrue` and
`CabinetPlaysDirectly` are about whole numbers and exact transforms, as the
modules are: they say nothing of the rounding of `float`.

## What is assumed and left out

* The filter's history may outlive muted and bypassed blocks
  (`AudioEngine.cpp:22-39`) while some band keeps its gain: `NoStaleHistory`
  speaks of an equaliser that has been flat. An echo that stays on outlives them
  too, and a switch from one preset with an echo to another.
* `DelayLine` leaves out feedback, mix and the memory of the tone filter, which
  `Reset` clears (`PedalEffects.cpp:160`): floating point. `Convolver` leaves out
  the pass-through of a convolver that is not ready and of blocks of another
  size (`PartitionedConvolver.cpp:62-67`), which the codec never delivers.
* `PresetSwitch` is the pedal outside tuner mode; the callback's early return
  in that mode (`main.cpp:157-169`) is in `Tuner`.
* In `DataImage` the numbers of a record that is erased flash are zeros, where
  the code reads not-a-number, and whether a foreign entry's name is terminated
  (`QspiStorage.cpp:48-52`) is part of the choice of its type.
* `DataImage` takes every field to be 32 bits wide, as the offsets and lengths
  that are compared are.
* Samples, the filters' arithmetic, the envelope followers of gate and
  compressor and the network itself are floating point and are abstracted to
  where their inputs come from. So are the low-pass before the tuner's decimation
  and the logarithms by which a lag becomes a note. `Yin` takes samples to be
  integers and a quotient to be rounded down, so a difference that rounding in
  `float` decides is not seen.
* `Drawing` knows no glyphs, colours or rounded corners; `DrawBar` is never
  called. The start-up commands of the panel are I/O without state.
* Not modelled at all: logging, the link-time stubs (`NamEmbeddedStubs.cpp`,
  which keep no state), pins and sizes (`HardwareConfig.h`, which give the
  constants their values), the scripts run by hand on a PC, and the vendored
  code, whose directories are empty here.

## Disagreements

Six runs show one each; their properties say what the repository says, and TLC
finds them violated.

* `hold_is_tap`: `Controls.cpp:35` says that a release after a hold is not a
  tap, but the test looks at the flag of the previous call, and the falling edge
  comes, as line 66 says, several calls after `Pressed` has dropped. FS2 held
  reverts the preset, and its release then steps to the previous one.
* `mark_shown`: `RenderPerformance` draws `* EDITED` into rows 38 to 47 and then
  fills the AMP block from row 40 down (`Ui.cpp:166`), so two rows of the mark
  are left, although
  `docs/superpowers/plans/2026-06-24-performance-display-layout-b.md:158` has it
  remain visible.
* `form_from_list`: a press on the list selects a preset as it goes down, and
  leaves the list; only a press begun in performance mode, where it opens the
  list, and held opens the form (`main.cpp:653`). `Ui.h:9` has the form entered
  by a long press for the highlighted preset, and
  `docs/superpowers/specs/2026-06-20-pedal-redesign-eq-design.md:118` by a long
  press anywhere.
* `mixed_pitch`: two notes in a simple ratio repeat together, and `Analyze` takes
  the first lag below its threshold (`TunerDetector.cpp:99`), so they are given
  a stable pitch. `docs/superpowers/specs/2026-06-24-tuner-mode-design.md:216`
  wants none, and `tests/test_tuner_detector.cpp:37` says that it "must not lock
  onto this"; the test tries one interval.
* `exact_fit`: a request that ends on the last byte of SRAM makes the next one
  miss the jump and be served from unmapped addresses (`SdramHeap.cpp:44`), which
  is what the file exists to prevent (`SdramHeap.cpp:3-7`). newlib rounds its
  requests to pages, and the top of SRAM is the end of one.
* `whole_line`: a line that is longer than the command by a multiple of 64 bytes
  and ends with it restarts the pedal (`BootloaderCommand.cpp:34`), although
  `docs/superpowers/plans/2026-06-25-app-triggered-bootloader-dfu.md:37` has the
  command be exact.

The others below came up while the modules were written. Each was reproduced
with TLC on the definition in brackets, which stays in its module for whoever
changes the code; no run lists it.

* A preset that names no model and is not bypassed keeps the model of the
  preset before it (`PresetManager.cpp:116`; `NoStaleModel` of `PresetSwitch`).
  The packer writes such a preset when its entry has no model.
* `ModelManager.h:6` says that audio keeps running on the previous model during
  a load. It is muted, and the old model is gone (`PresetManager.cpp:89`,
  `ModelManager.cpp:44`; `AudioRunsDuringLoad` of `PresetSwitch`).
* After a chord whose switches come up one after the other, the release latch
  of the first is set again, and its next genuine tap is swallowed
  (`Controls.cpp:70`; `EveryTapCounts` of `Controls`, with the values of
  `MCHoldIsTap.cfg`). It costs no more than that one: `OneTapLostPerChord`.
* A footswitch released in the iteration that reports the long press leaves the
  form open behind the performance screen (`main.cpp:679`; `EditScreenShown` of
  `Pedal`).
* A footswitch whose contact opens for one sample while it is held starts its
  800 ms again, without a release, and may be reported as held a second time in
  one press (`Controls.cpp:20-23`, `OneHoldPerPress` of `Controls`).
* The form overwrites the preset in RAM, so a later revert, which
  `main.cpp:625` calls original QSPI data, plays the edited one without a mark
  (`CleanIsStored` of `Pedal`).
* A preset's name of more than 12 letters, of the 30 the format allows, runs into
  the frame of the AMP block, whose right side starts above the block
  (`Ui.cpp:170`; `Legible` of `Drawing` without `Roomy`).
* A threshold or tone of exactly 0, which `presets.json` may ask for and the
  range allows, is taken for missing and plays as the default
  (`PresetManager.cpp:102`; `NumbersPlay` of `DataImage` without `~zero`).
* With a preset whose model is not in flash, or that names none, the form shows
  the first model and applies the missing one or none (`main.cpp:343`; `FormShowsNames` of `Pedal` with
  `Flash <- LostPreset`, `Models <- OneModel`).
* With no models in flash the index of the form becomes 255
  (`main.cpp:716`; `FormIndexInRange` of `Pedal` with `Count = 1`,
  `Flash <- Direct`, `Models <- NoModels`, `Irs <- NoIrs`).
* When `write_idx_` wraps, after 99 hours of tuner mode, the tuner reports no
  signal for one window (`TunerDetector.cpp:51`; `EnoughIsEnough` of `Tuner`).
* A change of the frequency alone is not redrawn (`Ui.cpp:83`; `AllUpToDate` of
  `Display`).
* A knob that passes the counting edge and falls back to its detent counts a
  step (`quad_decode.h:20`; `NoDetentLost` under `TurningBackSpec` of
  `QuadEncoder`).
* Names that agree in their first 30 bytes collide, and a preset plays
  whichever comes first (`tools/build_data_image.py:60`; `PresetsPlay` of
  `DataImage` with `Encoded <- MCTruncated`, without the assumption `Apart` of
  `MCDataImage`).
* A cabinet packed with the longer `--max-taps` of `tools/README.md:65` is
  refused by the firmware, and the preset plays without it (`IRLoader.cpp:46`;
  `NamesPlay` of `DataImage` says so).

## Plan

Written, most important first: `PresetSwitch` (composing `AudioEngine`), `Eq3`,
`Controls`, `Pedal`, `Tuner`, `Display`, `SdramHeap`, `QuadEncoder`,
`DataImage`, `Convolver`, `DelayLine`, then `BootLine`, `Drawing`, `Yin` and the
numbers of a preset in `DataImage`.

To come, in this order:

1. `Engine`: `Process` with its early returns, composing equaliser, convolver
   and echo, so that what each remembers can be stated across a bypass.
2. `Tuner` within `Pedal`: the mode, its screen and the ring together.
