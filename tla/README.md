# WA105Soft: models, checks and proofs

WA105Soft reads, monitors and reconstructs the data of the WA105 3x1x1 dual
phase liquid argon detector.  This directory holds TLA+ models of the parts of
it in which order, concurrency and state matter: raw data files, their decoder
and the compression of samples; the server and the client that carry events to
an online display; the event loop of the reconstruction and its tasks, from
samples to hits and from hits to tracks; the raw event display and the monitor
of reconstructed files.  TLC checks them on small instances.  For every value of
the constants TLAPS proves the safety properties of the files, of the server, the
client and the online decoder, of the event loop, the raw display, the monitor, the
hit finding and the building of tracks, and that the chain from the socket to the
online display implements its abstract specification.

Contents: 1 the system; 2 modules and code; 3 the runs; 4 bounds; 5 fairness;
6 the proofs; 7 disagreements between code and documentation; 8 what is not
modelled; 9 the plan.

## 1. The system

| component | state | operations | interacts with |
|---|---|---|---|
| `dlardaq::EventDecoder`, files (daq) | stream, bookmarks `m_events`, `m_totev`, last header and data | `Open`, `Close`, `GetEvent(i)` | the disk; called by every reader |
| `dlardaq::EventDecoder`, network (daq) | `m_bytes_left`, `m_EveDataBuf`, `m_EveData`, `m_evh`, `m_rnh`, a timer, `m_data_mutex` | `ReadBuffer`, `GetEvent()` | filled by the dispatch thread of `EventClient`, polled by the display |
| `dlardaq::EventEncoder` (daq) | output file, `m_totev` | `Open`, `Close`, `WriteEvent`, `WriteBufferEvent` | the disk; frames go to `EventServer::Send` |
| `dlardaq::EventServer` (daq) | `m_clients`, output buffers, `m_running` | `Start`, `Stop`, `Send`; callbacks accept, write, error | libevent thread, sockets |
| `dlardaq::EventClient` (daq) | `bev`, `m_connected`, `m_running`, event base | `Connect`, `Stop`, destructor; callbacks timer, read, error, SIGINT | libevent thread; feeds `EventDecoder` |
| bit formats, `HuffDataCompressor` (daq) | the decoder's queue of bits, codes and counts | compress, decompress, pack, unpack | encoder, decoder |
| channel maps (daq), `RawDataFormatUtil` (datautils) | table of strips; samples of every strip, filled again with every event | `InitMap`, `MapToCRP`, `MapToDAQFile`, `FillEvent` | decoder, data model |
| `EventDataManager` (datautils) | input and output status, loop counters, event buffers, trees | `Open`, `Close`, `ProcessSubSample`, `NextEvent`, `EndEvent`, `GetEvent`, `GetOnlineEvent` | decoder or ROOT trees below, programs above |
| `HitCollection` (datautils) | hits by channel, ordered | insert, nearest hit | reconstruction |
| `HitRecoTask`, `RawChDataROI`, `AlgoMultiHit` (tasks, lowrecon) | regions, pedestal, fragments and hits of a channel | find, pad, cut, find hits, integrate | samples of the event; adds hits to it |
| `CRTrackRecoTask`, `CRTrackSegRecon`, `NNCluster`, `TrackBuilderMTC`, `TrackBuilderSm`, `TrackJoinCRM` (tasks, recon) | flags of hits, clusters, trajectories, tracks | cluster, walk, merge, select, fill up, join | hits of the event; adds tracks to it |
| `RawViewer`, `RecoViewer`, `DQMonViewer` (guiutils) | event index, playback, buttons | open, next, previous, play, timer | `EventDataManager`, `EventClient`, `FileFetcher` |
| `FileFetcher`, `MonTask` (utils, montasks) | time of the last search | new files | the file system |
| simulation, space maps, analysis programs | | | outside the scope, section 8 |

The hard behaviours:

* **Two threads without enough locks.**  The dispatch thread of `EventClient`
  runs `ReadBuffer` while the display polls; `EventServer::Send` walks through
  a map that callbacks change; the flags of the client are written by both
  sides, and SIGINT makes the dispatch thread stop itself.
* **A byte stream with no message borders**, reassembled by looking for keys,
  with a timeout, reconnections, and data that may look like a key.
* **Reading relative to the stream's position, and without looking whether it
  succeeds.**  `EventDecoder::GetEvent` finds an event it has no bookmark for from
  wherever the stream happens to be; and a read that fails leaves in the buffers
  what an earlier one, perhaps of another file, put there.
* **Late writing.**  `EventDataManager` writes an entry when the *next* event
  is asked for, from buffers that every call shares; the two kinds of input
  reset different parts of the loop.
* **Counters at their limits**: a 16 bit footer, one counter for file events
  and network frames, the playback index at the end of a file, ranges of events
  that lie outside the input.
* **Crashes and unfinished files**: a writer that dies, or is still at work, leaves
  a file without a footer, with half an event at its end, or shorter than the run
  header, as long as the stream's buffer was not flushed.
* **Two layers of cutting.**  Compressed samples are packets of 13 bits in
  bytes, and codes are cut where a packet ends; the decoder has to keep its
  queue at the beginning of a packet through any order of reading and taking.
* **Flags of hits that many steps change.**  A hit is free, tried or taken;
  seeding, walking both ways, dropping, merging and filling up gaps all set it,
  over lists that change while they are walked.
* **Borders of a wave**: unsigned arithmetic at its start, regions that run into
  each other, pulses that are cut off at its end.
* **Time stamps against a disk that goes on changing**: a search for new files
  takes time, and the time stamp is cut to a second.

What makes a component correct: a reader is given the event it asked for (the
decoder, the viewer); what was written is read (encoder and decoder); what is
displayed online is one whole event, and never an older one than before; a
server sends whole frames with bounded memory and forgets dead clients; a client
keeps one connection and finds its server again; the output of a
reconstruction holds exactly the chosen, uncut events, each with its own
products; samples come out as they went in, at the strips of their channels;
every pulse is found, once; no hit is lost or in two tracks; no new file is
passed over, and the window shows what was read last.

## 2. Modules and code

| module | code | what an action is |
|---|---|---|
| `EventDecoderFile` | daq/src/EventDecoder.cc, file mode | one call of `Open`, `Close`, `GetEvent(i)` |
| `FileReader` | the sequential callers (`checkevrate`, `dofft`, `caliana`, `EventDataManager::NextEvent`) | a call they may make: an event beyond the farthest one only right after it |
| `EventEncoder` | daq/src/EventEncoder.cc | one call, or the death of the program |
| `RawFiles` | both, in two programs, sharing the disk; the reader is that of `FileReader` | a step of the writer or of the reader, who may open a file that is still written |
| `EventDecoderOnline` | EventDecoder.cc network mode, the poll in `EventDataManager::GetOnlineEvent`, `FillEvent` | `ReadBuffer` is one action because it holds the lock throughout; the poll is three, because only its copy is locked |
| `EventFeed` | abstract | the display moves to a later whole event |
| `EventServer` | daq/src/EventServer.cc | a callback, or one turn of the loop in `Send` |
| `EventClient` | daq/src/EventClient.cc | a callback, or a call up to the point where it joins the dispatch thread |
| `EventDataManager` | datautils/src/EventDataManager.cc, driven as src/recotask.cc drives it | one call; the tasks of one event are one action |
| `RawViewer` | guiutils/src/RawViewer.cc over `EventDecoderFile` | one handler of the interface, `FetchEvent` |
| `HuffCode` | HuffDataCompressor.cc, compression | functions |
| `HuffDecoder` | `HuffDataCompressor::DecompressEventData` | one iteration of its loop: at most one byte and one packet |
| `ChannelMap311` | daq/src/ChannelMap.cc | functions |
| `WireEvent` | `EncodeEvent`, `Decode` and `RawDataFormatUtil::FillEvent` over the three above | encoding, one iteration of decoding, filling |
| `RoiFinder`, `MultiHit` | lowrecon: RawChDataProcess, AlgoMultiHit.cc | functions, of a whole wave |
| `HitCollection` | datautils/src/HitCollection.cc | functions, of a collection |
| `HitReco` | tasks/src/HitRecoTask.cc over the three above | the stages of a channel: pedestal, regions, padding, hits, windows; one hit added |
| `NNCluster` | recon/src/NNCluster.cc | one turn of either loop |
| `TrackBuilderMTC` | recon/src/TrackBuilderMTC.cc, Track2DTrajectory.cc, LILUtil | seeding, a step of a walk, a pair to merge, a trajectory to select or to turn into a track, a hit to fill in |
| `TrackBuilderSm` | recon/src/TrackBuilderSm.cc | a cluster |
| `TrackJoinCRM` | recon/src/TrackJoinCRM.cc | a segment |
| `CRTrackReco` | tasks/src/CRTrackRecoTask.cc, recon/src/CRTrackSegRecon.cc over the four above | the order they are called in |
| `RecoTasks` | the tasks of src/recotask.cc on one event | one task after the other |
| `RecoViewer` | guiutils/src/RecoViewer.cc | a handler; opening a file |
| `RecoChain` | src/recotask.cc, src/recoviewer.cc | a step of the program that runs |
| `FileFetcher` | utils/src/FileFetcher.cc | a program writes or closes a file; find looks at one file |
| `Monitor` | montasks/src/MonTask.cc, MonBenchDist.cc, guiutils/src/DQMonViewer.cc | reading one file, an end of a poll, a drawing, a handler |
| `Sifting` | helper | the elements of a sequence that are in a set, by a fold, so that the provers can use it |
| `MC...` | | constants of the instances; `MCOnlineDisplay`, `MCDataPath` and `MCRawDisplay` put two components into one run |
| `RawFilesProofs` | | the theorems about `FileReader`, `RawFiles` and `RawViewer`, and their proofs |
| `NetworkProofs` | | those about `EventDecoderOnline` and `EventClient` |
| `ProgramProofs` | | those about `EventDataManager`, `Monitor` and `EventServer` |
| `FoldTheorems` | | what a step of a fold keeps holds of the fold |
| `HitProofs`, `RecoProofs` | | what the functions of hit finding return; the theorems about `HitReco` in `RecoChain` |
| `BuilderProofs`, `TrackProofs` | | the steps of `TrackBuilderMTC`; the theorems about `CRTrackReco` in `RecoChain` |

How data are abstracted.  An event of a file is a number.  A position in a file
is the number of whole events before it, and `Eof` is a stream whose failbit is
set.  Of a file the model knows the events that were written, how many of them are
on disk as a whole (`Short`: not even the run header is) and the footer, if there is
one; of the decoder's buffers, the header read last (`m_evh`) and the footer read
last (`m_EndFootBuf`), which outlive the file they were read from.  The history
variable `own` says that the count the decoder goes by was read from the footer of
the open file, which its writer had closed.  On the wire an event is two header units and `Size[e]` data units; a chunk
may end after any unit.  In the server a frame leaves in two pieces.  In the
client a bufferevent is an identifier with a state (connecting, up, lost,
pinged, failed, free).  In the event loop an event is its index, and a product
is the event it was computed from.  On the way through the compressor a sample is
a sample and the wire is a row of bits, since both the code and the cutting of
it are what can go wrong.  In hit finding a wave is a function on its samples;
the thresholds the code computes from pedestal and noise are chosen.  In track
finding positions are integers, and everything the Kalman filter and the fits
say (where a hit is predicted, whether a chi square passes, whether segments
have one direction, how near a hit is to the smooth curve) is a choice, so that
the properties hold whatever they say.  The monitor's clock counts ticks, some
of them in a second.

Points where the code decides and the model follows it literally:

* `Seek` does not repair a failed stream, because `seekg` does not clear
  failbit; `Open` does, as it opens the file anew.
* `Open` checks no read (daq/src/EventDecoder.cc:98-130).  On a file shorter than its
  run header the stream fails at once, `decode_filefoot` decodes the footer of the
  file before once more, and the file is open with that file's count: `GetEvent`
  bookmarks `tellg()` = -1 and hands out the header read last.  Of another unfinished
  file the last four bytes are data: mostly no footer, and the file is refused; but
  they may look like one, with a count in `Chance`.
* `ReadAhead` bookmarks `tellg()`, wherever that is.  Behind the last whole event of
  an unfinished file `seekg` past the end is no error, and what is read is part of a
  header (`CutEvent`) or stays what it was.
* `StartEvent` with `size = 0` leaves the timer alone; with all the data in the
  first packet it leaves `m_bytes_left` at 0 and decodes nothing.
* `ShortPacket` looks for the key beyond the end of the chunk.  The outcome is
  undefined: the model has the two that matter, that nothing is found, and
  that the program dies.
* `SendOne` may miss clients once the map was changed under its iterator, and
  crashes when it is on a node that was erased.
* The server does not enable reading, so that only a write tells it that a
  client is gone; an error event may also be the write timeout of a slow one.
* `RemoveBufEvent(b)` of the client frees the *current* bufferevent, which need
  not be the one that failed.
* `SignalEvent` clears the flags and asks the loop to exit; the join of a thread
  with itself returns at once with an error.  `Stop` tests `m_running` in one step
  (`TestRunning`) and clears the flags in the next (`StopLoop`), so that SIGINT may
  come before the test, between the two, or while `Stop` waits.
* `OpenInput` of a ROOT file resets the loop, that of a raw file does not: its events
  begin at the -1 of the constructor or wherever the input before was left, and
  `fEventBranches`, the copy of `fAddedBranches` an event goes by, is made only when
  the loop is started.  `Event::Add` drops a product whose branch is not in the copy.
* `HitRecoTask` (tasks/src/HitRecoTask.cc:79) takes the parameters of the left
  and the right padding the other way round, and `PadROI` computes in unsigned
  integers: a region that is not the first and starts within the left padding
  begins far beyond the data.  A channel whose status is an error, or whose full data
  do not start at sample 0, is given no fragments (`NotTreated`).  Where regions
  meet, the sample between is in none.
* The first sample is not looked at when a region is searched: above threshold it
  stays in the pedestal.
* `GetClosestHit` goes by the starts of hits, and may return the next hit for a
  tick inside the one before.
* `NNCluster` leaves out a cluster of exactly `fMinClus` hits.  In
  `TrackBuilderMTC` hits that were masked (flag -1, "mask it", :414) may be
  taken all the same by a walk or when gaps are filled up; hits kept back at the
  cut stay flagged when the walk ends at the last channel.  LILUtil's search
  misses a hit exactly at its lower end unless it is the first.
* `TrackBuilderSm` without a channel with one hit counts an unsigned index below
  zero (:139): the outcome is `crashed`.  `TrackJoinCRM` skips one module after
  a joining, and may join another segment of the same one.
* `DecompressEventData` allows one iteration that finds no byte to read
  (:574-584): an event that ends in channels of two bytes is given up, and
  `FillEvent`, which only complains about missing samples, leaves those of an
  earlier event on their strips.
* The time stamp of `FileFetcher` is taken when find has ended and is cut to a
  second: a file written behind find is missed if time() comes in a later second,
  one of the same second is found again.  Files that were there before the first
  search are never found.
* `RecoViewer::FetchEvent` only switches buttons, and enables `Prev` neither at the
  first event nor at the last.  `GraphHits` numbers the points of every graph by
  the hits of the event, so that the graph of one CRM has points at the origin for
  earlier hits of others.  View 1 is not asked for its hits (OpenFile asks twice
  for view 0), and without them the program dies.
* `MonBenchDist` sets `fGotData` back for every file of a poll (:128).  A file that is
  not written yet may give a `TFile` that is not open, and is passed over (`SkipFile`), or
  give none at all, through which `DoFileRead` calls `IsOpen` and dies (`OpenNull`).

Definitions whose name and comment say *Bug form* are never used by the
specifications.  They stand before the definition they vary, and a property is
known to say something when TLC refutes it with the bug form in its place.

## 3. The runs

| run | configuration | question | result |
|---|---|---|---|
| raw_files | RawFiles.cfg | does a sequential reader get the event it asks for, as it was written, whatever is opened when, and with writers that die? | holds of files that were closed, up to what the footer can count |
| raw_files_unfinished | RawFilesUnfinished.cfg | is an event that is handed out one of the open file? | refuted |
| online_display | OnlineDisplay.cfg | does the chain from socket to display implement `EventFeed`, and what is left of that with a reconnection and data that look like a frame? has the client one connection, does it not crash, does it reconnect, does `Stop` return? | holds up to the reconnection, sizes always fit; of the client each under the disturbances it names |
| online_one_packet | OnlineOnePacket.cfg | is a frame that comes in one packet stored? | refuted |
| online_header | OnlineHeader.cfg | are header and data on display of the same event? | refuted |
| server | EventServer.cfg | bounded memory, whole frames, dead clients leave | holds |
| server_use_after_free | EventServerUseAfterFree.cfg | may clients be removed while `Send` runs? | refuted |
| data_path | DataPath.cfg | does the output hold the chosen events with their own products? is every new file read by the monitor, and the last one shown? | holds under the conditions named, but for files written behind the search and the changes `fGotData` hides |
| event_loop_products | EventLoopProducts.cfg | is what a task adds in what is written? | refuted |
| raw_display | RawDisplay.cfg | do buttons and playback stay inside the file and show what the label says? do samples come out of compression, packing and the channel map as they went in? | holds, the label of closed files until playback skips events, the samples but for events that are given up |
| reco_tasks | RecoTasks.cfg | from samples to hits and from hits to tracks: is anything lost, doubled or out of order? | holds, but for the losses the properties name |
| reco_closest | RecoClosest.cfg | is the closest hit of a tick one that the tick is inside of, if there is any? | refuted |

Three runs check two components that share no state, one of which moves in every
behaviour (`MCOnlineDisplay`, `MCDataPath`, `MCRawDisplay`): their states add up.

The properties, beyond the type invariants of the decoder (file and network) and
the client:

* `RightEvent`, `BookmarksExact`: of a file that was closed before it was opened
  (`own`), whatever was opened before, `GetEvent(k)` hands out event k, and bookmark
  k is where event k begins.
* `ReadAsWritten`: event k of such a file is the k-th written.  `AllEventsOffered`: a
  file whose own footer the decoder read is one nobody writes any more, and it offers
  its events modulo what the footer can count (2^16 in the code).
* `EventOfFile` is what cannot be said of the others: a file that is shorter than its
  run header opens with the count of the one before.
* `FeedSpec`: with `given` mapped to the event whose data are on display, every
  step of the chain is a step of `EventFeed` or a stutter.
* `StoredIsWhole`: what `ReadBuffer` stores is the data of the event whose
  header it holds.  `StoredHasSize`: and has the size the header gave.
* `MemoryBounded`, `WholeFrames`, `GoneClientsLeave` of the server.
* `OneConnection`, `NoCrash`, `RefusedMeansConnected`, `Reconnects`,
  `StopReturns` of the client.  The disturbances of a behaviour are chosen at its
  start (`may`): attempts that outlast the retry timer, callbacks that run after
  `Stop` has set the flags, SIGINT.  A property names the disturbances it does
  not survive; the weaker the condition, the more it says.  `Reconnects` and
  `StopReturns` survive all, SIGINT in the middle of a `Stop` included.
* `OutputFollows`: every output holds the processed events that were not cut,
  once, in order, each with its own products, or without any in the outputs of raw
  files that were opened after the loop was started (history variable `resumed`).
  `AllSelected`: and the events that were processed are the ones that were asked for.
  Their conditions name what breaks them: `GetEvent` while an output is open, a raw
  file opened after another input, a start outside a raw file.  `ProductsKept`,
  that no output is without the products its tasks added, does not hold.
* `NullOnlyOnEmptyFile`: the viewer follows a null event only on a file without
  events.  `PlaybackEnds`: playback comes to the end of the file.
  `ShownAsLabelled`: the event on display of a file that was closed is that of the
  label, until an event beyond the farthest one is asked for when that is not the
  last one read (history variable `jumped`).
* `RegionsOfInterest`: the pedestal is taken from outside the regions, fragments
  share no sample, and every sample above threshold is in one, but for the two
  losses of `PadROI`.  `HitsFound`: each wide pulse that ends inside its fragment
  is one hit or divided into several without a gap, each peak is the highest
  sample of its hit, and windows of neighbours share one sample at most.
* `CollectionHoldsHits`: in whatever order hits are added, the block of channels
  has no gap, its hits are in order, and nothing is lost but hits of another
  module or view.  `ClosestHit`: the hit for a tick is the one that starts nearest to
  it, or the first one up to its end; both, and nothing else, is what the search keeps
  for any list of hits in order.  `HitAroundTick`, that no hit is closer than one the
  tick is inside of, it does not keep.
* `ClustersAreComponents` (an action property): clusters are the connected groups
  of hits that are large enough, compared with a definition by paths.
* `HitsAccountedFor`: through all steps of the builder a hit is in one trajectory
  or track at most, and is then flagged as taken; every hit was tried.
  `TracksInOrder`: points go up in channels, and the path of a track passes every
  channel from its first hit to its last.  `TracksDivideHits`: no hit is in two
  tracks, and joining loses none.  `SinglesOnTrack`: the simple builder never
  gives up a hit that is alone on its channel, also where it stops in a shower.  `MergingEnds`: every pass of
  `MergeTrjs` that is followed by another one made the list shorter.
* `RecoViewFollows`: the buttons of the display lead to the neighbours of an event
  wherever there are any, and never out of the file; a canvas shows each hit of
  the selected CRM once, and the pieces of every track there.
* `RoundTrip`: what is decoded is what was encoded and the decoder does not
  abort; an event is given up only if its last channel has two bytes at most, and
  then a beginning of it was decoded.
  `FlagFirst`: the queue of bits begins with the flag of a packet whenever an
  iteration begins.  `ChannelsAtTheirStrips`: the table of the map is the inverse
  of the function it is made with, strips without a channel stay empty, and those
  of lost channels keep what an earlier event left.
* `NothingMissed`: a file that was closed was read or will be found by the next
  search, unless it was written behind find and time() came in a later second.
  `ReadsBounded`: no file is read for ever.  `ShowsTheLatest`: the canvas shows
  what was read last or will be drawn again, unless a file without histograms
  hid that.

`RegionsOfInterest`, `HitsFound`, `CollectionHoldsHits`, `HitsAccountedFor`,
`TracksInOrder`, `TracksDivideHits` and `RecoViewFollows` are conjunctions of named
parts, and there is a bug form for each part.

## 4. Bounds

* RawFiles*.cfg: an old file of five events whose footer says two, as it does
  when it wrapped, and two files, interchangeable, that are written up to three
  events; the footer counts modulo three instead of 65536, so that counts below, at
  and (of the old file) above the limit occur.  Requests go to two, one beyond what
  any footer promises.  What can go wrong in a reader needs a bookmarked event, one
  that is not, and a jump between them.  Frames may be encoded and the writer may die
  at any time, with any of its events on disk or not even the run header; data that
  look like a footer promise two events.
* Online*.cfg, the decoder: six events of 3, 1, 0, 2, 2 and 1 data units over two runs, at most
  eight units in the socket.  Chunks may join the end of one frame with the
  beginning of the next, hold a whole frame, end between the headers, and the
  event may be empty.  `MaxReconnects` is 1, and event 5 begins with data that
  look like a header; both are absent where a counterexample is to be found.
* EventServer*.cfg: three connections for two places on three descriptors, so
  that a connection is refused and a descriptor is used again; three frames told
  apart, so that one can be skipped between two others (two frames where only the
  race matters).
* OnlineDisplay.cfg, the client: two ports, three bufferevents at a time: the current one, one
  that was left behind and one more.
* DataPath.cfg and EventLoopProducts.cfg, the event loop: a raw file of three and a
  ROOT file of two events, opened in any
  order, to read or to process, with a start of -1, 1 and past the end and every
  count; `GetEvent` at most once for every output (otherwise a loop that is moved
  back processes without end).  Products are registered once for every output, by a
  caller who writes one, as recotask does; a ROOT input is taken to hold no products
  of the tasks' names.
* RawDisplay.cfg, the viewer: a file of five events, one without any, one shorter than its run
  header and one with two of three events on disk, which data may give a footer of
  three; playback in steps of one or two.  Five events allow a step, a gap and a
  clipped step in one file.
* RecoTasks.cfg: every wave of seven samples at three levels (below, between and
  above the two thresholds of hits), under three settings in which regions
  touch, overlap and end between the levels, whole or cut into fragments of
  four.  Seven samples hold two regions with padding, or a pulse with two peaks
  between samples outside.  Of events: two lines that cross, a line with a gap and
  a masked hit, two pieces of a line, two hits on every channel, a shower at both
  ends, a track through three modules, scattered hits, and all events with none,
  one or two hits on three channels behind a seed.  Predictions are anywhere in
  the range of the hits; a cluster needs more than two hits, two channels without
  a hit end a walk.  Only one of the tasks and of the programs runs
  at a time, so that their states add up and do not multiply.  The display opens
  files of one, two and four events that repeat, of hits of two CRMs that are
  mixed, of one CRM, or of none, with a track that leaves a CRM and comes back.  The noise is not negative
  (`rms`): it is a deviation or a positive parameter, so the refusal of a negative
  one never comes.
  RecoClosest.cfg has three hits of one channel instead of two.
* RawDisplay.cfg, the samples: samples of 12 bits as in the experiment.  For the code, two
  channels of seven samples, one of which takes every row of the steps 0, +3 and
  +50, or 0 and -1: runs as long as a code for repetition, the largest step with a
  code, and steps too large for one, in every order and at every place of a
  packet.  For the map, eight channels of two samples in two crates of two cards;
  the decoder takes the number of channels from the geometry, which has eight strips,
  too, but one too many in view 0 and one too few in view 1.  Any of the channels of
  the second event may be short, so that some events are given up.
* DataPath.cfg, the monitor: three seconds of two ticks and one tick more, two files, one of which is written
  twice, polls at least a second apart.  Two ticks tell the beginning of a second
  from its rest, and three seconds hold a search that is longer than one.  ROOT's answers to
  opening a file that is still written are taken to be no file, or one that is not open.

Deadlock is checked for reco_tasks.  The other runs end where their bound is used
up or the program has stopped, and say CHECK_DEADLOCK FALSE.

## 5. Fairness

* Server: the program goes on calling `Send` (`WF` of `SendBegin` and `SendOne`),
  and libevent reports a write to a peer that is gone, by an error or by the write
  timeout.  Nothing is assumed of peers that live, of accepting or of `Start` and
  `Stop`.
* Client: libevent reports what happens to a bufferevent, the persistent timer
  fires, a loop that was told to exit does, and a join whose thread has ended
  returns.  Nothing is assumed of the server, of the user or of SIGINT.
* Viewer: the timer fires while playback is on, and a handler that has begun
  ends.  Nothing is assumed of the user.

## 6. The proofs

A theorem holds for every value of the constants under the named assumptions of
the modules.  They say that counts and sizes are natural numbers, that special
values are none of the ordinary ones, that `Disk` is a disk (a sequence of events
and a footer for every file), and further:

* a footer of an old file promises no event that is not there, and the whole file is
  on disk; data that look like a footer give any natural number (`DiskAssumption`);
  what is on disk of the other files is not restricted;
* in `RawFiles` the files to be written do not exist yet, and the footer of an old one
  is the count modulo `FootMod` (`RawFilesAssumption`); in `RawViewer` no count exceeds
  `MaxRequest`, so that the bound takes no step away (`ViewerAssumption`);
* find meets every file once, and polls are a second apart or more
  (`FetcherAssumption`; src/dqmon.cc:19 sets five seconds);
* no item of the monitor's list is named by the empty string, which stands for
  none (`MonitorAssumption`);
* a wave has fewer samples than an unsigned number counts and samples, thresholds
  and paddings are integers; hits that were there before are of other channels,
  and hits of one channel share no sample (`HitRecoAssumption`; that is what
  `HitsFound` shows of each channel);
* an event gives the track reconstruction a list of distinct hits, whose channels and
  modules are numbered from 0 (`InputsAssumption`), and distances and gaps are natural
  numbers (`BuilderAssumption`); what the filters and fits say is not restricted;
* the data that look like a frame are data units of the events
  (`FalseKeysAssumption`).

Bounds such as `MaxNow`, `MaxConns` or `MaxInFlight` are constants like all
others: a theorem holds whatever they are, so it does not depend on them.

| module | theorems | inductive invariant |
|---|---|---|
| `RawFilesProofs` | `ReaderTypeOK`, `ReaderRightEvent`, `ReaderBookmarksExact` | `ReaderInv` |
| | `RawReadAsWritten`, `RawAllEventsOffered`; `RawTypeOK`, `RawRightEvent`, `RawBookmarksExact` | `RawInv` |
| | `ViewerNullOnlyOnEmptyFile`, `ViewerShownAsLabelled` | `ViewerInv` |
| `NetworkProofs` | `StoredWhole`, `OnlineTypeOK`, `OnlineHasSize`, `OnlineImplementsFeed` | `IInv`, `TInv`, `FeedInv` |
| | `ClientTypeOK`, `ClientOneConnection`, `ClientNoCrash`, `ClientRefusedMeansConnected` | `ClientInv` |
| `ProgramProofs` | `LoopOutputFollows`, `LoopAllSelected` | `IInv` |
| | `MonitorNothingMissed`, `MonitorReadsBounded`, `MonitorShowsTheLatest` | `MonInv`, `ScreenInv` |
| | `ServerMemoryBounded`, `ServerWholeFrames` | `ServerInv` |
| `RecoProofs` | `ChainRegionsOfInterest`, `ChainHitsFound`, `ChainCollectionHoldsHits`, `ChainClosestHit` | `HitRecoInv` |
| `TrackProofs` | `ChainHitsAccountedFor`, `ChainTracksInOrder`, `ChainMergingEnds`, `ChainSinglesOnTrack` | `TrackInv` |

**RawFilesProofs, the decoder.**  `DecoderInv` holds whatever a caller does: on any
file, however short, the state has its shape, and `own` means that the count is that
of the footer of a whole file (`OwnFile`).  That bookmarks are exact is not inductive:
a bookmark is taken from the stream's position.  `ReaderInv` ties the three together
(`Inside`): in a closed file the stream has not failed, the number of bookmarks is one
more than the farthest event read, and right after that event the stream is exactly
behind it.  A sequential caller asks beyond the farthest event only when it was also
the last, and then the walk of `ReadAhead` starts where the bookmarks end.  What was
open before does not matter because `Open` clears the bookmarks and repairs the
stream; where the file is not a closed one nothing more is promised, and
raw_files_unfinished shows why.  `ReaderInv` is stated for the open file alone, so
that it also holds when other files change.

**RawFilesProofs, the files.**  A step of the writer keeps `ReaderInv`: while it
writes the file that is open for reading, `own` is false, as it never writes a file
that has a footer (`WriterLeavesReader`).  `ReadInv` says that a file whose own footer
was read is not the one being written and that no frame was encoded into it.
`WriterInv` says that a file has a footer only when its writer closed it, with all
events on disk, that event i of it is i - 1 and the footer the count modulo
`FootMod`; with `RightEvent` that gives `ReadAsWritten`, and with `m_totev = foot` it
gives `AllEventsOffered`, for any width of the counter.

**RawFilesProofs, the raw display.**  `ViewerInv` goes with `DecoderInv`, whose lemmas
on `GetEvent` are the same.  `AtInv` says that the buttons are those of where the
viewer is, and hence that a button that is enabled does not lead out of the file, and
that playback that runs past its end is the only way there; this holds of the count
the viewer was given, be it another file's.  `StreamInv` is what `Inside` is for a
sequential caller, until the viewer jumps (`jumped`).

**NetworkProofs, the decoder.**  `StoredWhole`: the invariant `IInv` says that what
is in the socket of a frame includes the rest of that frame (`WholeTail`); that an
event being put together consists of its first units, with the rest of them next
in the socket (`Continues`); and that stored data are those of the header
(`StoredIsData`).  `Continues` is needed because `AppendPacket` looks at nothing
but the count, and it is what a reconnection breaks.  `OnlineTypeOK` and
`OnlineHasSize` hold over any number of connections, from `TInv`: the count left
and the units in the buffer add up to the size in the header, and the count never
falls below minus what the socket can hold.

`OnlineImplementsFeed` is the refinement: `Spec => FeedSpec`, where `given` is the
event on display until something was lost (`Rough`), and the last event from then
on.  The pieces of the argument are that units are in the socket in the order they
were sent in (`StreamInv`), so that data taken for a frame are gone for good
(`FalseIsRough`) and `Rough` is never taken back (`StaysRough`); that headers still
to come are of later events than the one the decoder is at, and that it stores
nothing while it waits for more (`DecoderInv`); and that from the display back to
the decoder events get later: on display, in the copy `GetOnlineEvent` holds
between its steps, stored or being put together (`DisplayInv`).  The copy is why
`LastOut` is needed: between `TakesEvent` and `FillsEvent` the next event may be
stored, and must not be one that the copy already holds.

**ProgramProofs, the server.**  `ServerInv` describes a connection (`ConnOK`): its buffer holds
nothing, one frame later than all that was sent, or the second half of the one
sent last.  That is not inductive without knowing what `Send` has yet to do:
`SendInv` says that the clients at or behind the iterator have nothing of the
present frame.  Removing and adding clients while `Send` walks keeps it, because
what it says is about descriptors and not about the order of insertion, and
because the buffer of a connection that left is empty.

**NetworkProofs, the client.**  Each part of `ClientInv` carries the disturbances it survives.
`CurrentInv` (no attempt outlasts the timer, no late callback): all that is alive
is `bev`, and while the thread runs `m_connected` tells whether there is an
attempt or a connection.  It is needed because the retry timer looks at
`m_connected` only.  `ConnectedInv` (no late callback): who is connected runs.
`ExitInv` (no disturbance): the loop exits only while `Stop` waits for it.

**ProgramProofs, the event loop.**  `OutputFollows` is about every output, so the open
one and the closed ones are told apart: `ClosedInv` (a closed output is complete),
`PendingInv` (the open one lacks exactly the pending event, whose header, cut and
products are in the buffers).  `LoopInv` relates the loop's counter to what the
tasks were given: event i of them is `chosen.first + i - 1`, and `fCurEvent` is one
ahead while an event is in hand; `FreshInv` is the constructor's state, on which
a raw file as the first input rests.  `Kept` is stated as a relation (an
increasing way to place the entries among the events given) because the provers
cannot unfold the recursive definition of `SelectSeq`.

**ProgramProofs, the monitor.**  `CoveredInv` extends `NothingMissed` to all phases of a poll:
what was found waits to be read.  It is not inductive, because find passes files
one by one: `PassedInv` says what became of a newer file that find has passed.
`ReadsBounded` rests on `CountInv`, which relates how often a version was read to
how late the searches began: a second reading needs a search that began later, a
third one a stamp of a later second.  `ClockInv` orders the times that were noted,
and is where the assumption on `PollTime` is used.  `CanvasInv` is
`ShowsTheLatest` at any time.

**FoldTheorems, HitProofs, RecoProofs.**  The loops of hit finding over the samples
of a wave are folds in the model, and what they compute needs an induction over
the number of samples.  The provers cannot use a theorem whose parameter is an
operator, but a module with constant operators can be instantiated: `FoldTheorems`
takes a step and an invariant, and proves from the definition of `FoldLeft`, by the
least number of elements at which the invariant would fail, that what holds of the
base and is kept by every step holds of the fold.  `HitProofs` instantiates it for
the three loops:

* `ScanInv`: after k samples the regions are well formed and in turn, no pedestal
  sample is inside one, and every sample above threshold so far is in one or is
  passed over because the search goes on behind a region;
* `PadInv`: region j is padded by what it and the one before it are;
* `AlgoInv`: the hits so far are closed, follow each other, cover the wide pulses
  that have ended and lie in pulses (`Grouped`); the open hit, with its peak, its
  minimum and where the pulse began, is described by `OpenHit`.  Its peak is the
  highest sample only because a rise of more than the second threshold after a
  minimum splits the hit, which is why the minimum is part of the invariant.

`InsertHitOK` and `AddHitOK` do the same for the collection, where nothing folds: a
hit put before the first one that starts later keeps the hits of its channel in
order, and growing the block of channels moves the others without changing them.
`RecoProofs` lifts this to the steps of the task: `HitRecoInv` says of every stage
what is computed already, and the theorems are stated for the whole chain of
tasks, in which a step of another task leaves these variables alone.

**BuilderProofs, TrackProofs.**  A hit of a cluster has one place: it is free, in one
trajectory that grows, among the points a walk keeps back, in one of the long or short
trajectories, or in a track.  `BuilderInv` says so phase by phase (`GrowInv`,
`WalkInv`, `SelectInv`) in terms of the hits each of these lists holds, and that all
of them are flagged as taken; `FlagsInv`, that every hit before the next seed was
tried.  None of it is inductive alone: that merging two trajectories keeps hits apart
needs that they were apart, and a point belongs to its hit, whose place in the cluster
its identifier is.  `JoinInv` says that only joining empties a trajectory and that a
pass that joined two has left an empty one, which is why the next list is shorter
(`ChainMergingEnds`, an action property).  The points of a trajectory are ordered by
channel because `AddPoint` inserts (`AddPointOK`), and the path passes every channel
because filling up takes one step for each (`PathOK`): both are folds, and
instances of `FoldTheorems`.  `ClusInv` is what the builders are given: hits of a
cluster are distinct hits of the event, and clusters share none.  For
`ChainSinglesOnTrack`, `TrackProofs` adds what the two walks outward of
`TrackBuilderSm` return (`EndsOK`): each stops, at the latest, at the outermost
channel with a single hit, so that none of these is cut off.

Each of these invariants was checked by TLC on the module's run before it was proved.

Only model-checked:

* liveness: `GoneClientsLeave`, `Reconnects`, `StopReturns`, `PlaybackEnds`.
  The provers have no rules for fairness or `ENABLED`;
* the compressor (`RoundTrip`, `FlagFirst`): what the recursive walk over samples,
  codes and bits computes needs induction over data, which the provers cannot do
  with the operators at hand;
* that clusters are connected groups (`ClustersAreComponents`, a statement about
  paths of any length), the joining of tracks of modules (`TracksDivideHits`), the map
  (`ChannelsAtTheirStrips`) and the display of tracks (`RecoViewFollows`).

## 7. Disagreements between code and documentation

Kept as runs that TLC refutes:

* raw_files_unfinished (daq/src/EventDecoder.cc:110): a file shorter than its run
  header is opened with the footer of the file before, and its events are the header
  that was read last.
* online_one_packet (daq/src/EventDecoder.cc:340): a frame in one packet leaves
  `m_bytes_left` at 0 and is not decoded.
* online_header (daq/src/EventDecoder.cc:235): `m_EveData.empty()` is tested
  without the lock; what is copied under it may be a new header without data.
* server_use_after_free (daq/src/EventServer.cc:313): a client is freed while
  `Send` is at it.
* event_loop_products (datautils/src/EventDataManager.cc:704): a raw file that is opened
  for processing after another input was read loses the products of its tasks.
* reco_closest (datautils/src/HitCollection.cc:176): the hit returned for a tick inside
  one hit may be the next one.

Stated as conditions of properties that hold:

* a reconnection in the middle of an event joins the data of two; data that hold
  a key where a chunk begins are taken for a frame (`StoredIsWhole`);
* a footer counts events modulo 65536, together with network frames
  (`AllEventsOffered`);
* an attempt to connect that outlasts the timer is left behind, a callback that
  runs after `Stop` makes the next `Connect` to that port be refused, and after
  SIGINT the event base is freed under the dispatch thread (`OneConnection`,
  `RefusedMeansConnected`, `NoCrash`);
* after playback that skipped events, the event behind a gap of bookmarks is
  searched from the wrong place, and is not the one of the label
  (`ShownAsLabelled`);
* signal that `PadROI` loses and that stays in the pedestal, a pulse that is cut
  off by the end of a fragment (`RegionsOfInterest`, `HitsFound`);
* an event of short channels is given up, and leaves strips as they were
  (`RoundTrip`, `ChannelsAtTheirStrips`);
* a file written behind a search, and data that are forgotten before they are
  drawn (`NothingMissed`, `ShowsTheLatest`);
* the second event of a file of two is a dead end of `RecoViewer`, and graphs of
  one CRM hold points nobody set (`RecoViewFollows`);
* a raw file as a second input, or with a start outside it, is not processed as
  asked (n events without a start are one too few), and `GetEvent` replaces the pending event of an open output
  (`AllSelected`, `OutputFollows`).

Seen while reading, outside the models: checkevrate (src/checkevrate.cc) takes the
number of events of the first file as the limit for the later ones.  Modelled, and
not the subject of a run, is the null pointer `TFile::Open` may return
(montasks/src/MonBenchDist.cc:125, `OpenNull`): the monitor dies.

## 8. Not modelled

* Signal processing, the deconvolution, the Kalman filter, fits, simulation and
  space maps: floating point.  What the modelled code asks them is a choice.
* Contents of headers (trigger time, flags), histograms and the drawing: layout.
  The other widths of bit packing and the compressor's reading from a file have
  no caller, nor has `DBScanCluster`.
* The set-up of sockets and the failures that exit the program.
* ROOT's trees, used by what they promise: entry k is entry k.
* `RawViewer` online and with ROOT input (planned).
* A file that is removed between a search and its reading: nothing in the
  repository removes one.
* Configuration and parameter files, generated dictionaries, macros, build files.

## 9. Plan

Models: `RawViewer` online and with ROOT input; `OnlineChain`,
server, client and decoder composed, with the frames of `WholeFrames` as the
stream of the decoder.

Theorems, in this order: that `StripOf` of the channel map is one to one, for
every size of crates and cards; the buttons of `RecoViewer` (first part of
`RecoViewFollows`); `TracksDivideHits`, from what `TrackProofs` shows of segments, by
the steps of `TrackJoinCRM`.
