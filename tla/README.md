# xmpp-core in TLA+

A verification development for [xmpp-core](../src/README.md), a Go library that
negotiates XMPP streams: the server end (`XPart`), the client end (`ClientPart`),
the features both negotiate, the channel, parser and connection below them, the
grabbers that accept connections, the names both ends keep, and the example
server around it all. The modules are translated from the Go source at this
commit; line numbers below refer to the files under `src/`.

## 1. Inventory

| Component | State it keeps | Operations | What is hard |
|---|---|---|---|
| Element runner, `XPart` (xmpp_core.go) | handlers, limit, `handled`, `quit` of each runner; the features | `Run`, `WithElemHandler`, `WithFeature`, `Quit`/`Stop`, `OnOpenHeader`, `handleFeatures` | a goroutine per runner, nested without bound, all on one decoder and one channel; verdicts travel down unbuffered Go channels that are read once |
| Server features (tls_, sasl_, compress_, bind_feature.go, plain_auth.go, scram_auth.go) | a `handled` flag each | `Handle`, `Handled`, `Mandatory` | which of (caught, error) they return decides who reads next; SCRAM reads the stream below `Handle` |
| Channel (channel.go) | `state`, the decoder, the encoder | `Open`, `Close`, `Send*`, `next`, `WaitHeader`, `NextElement` | `state` is read and written by the reader and by `Stop` without a lock; `Close` ends with a timer |
| Connection, compressor (conn.go, compress.go) | the TLS connection, the compressor | `Read`, `Write`, `StartTLS`, `StartCompress`, `Close` | both ends must upgrade at the same point of each direction |
| Client part and features (client_*.go, scram_toauth.go) | features, `quit` | `Negotiate`, `Run`, `Stop` | no timeout; every answer may be something else |
| Parser (parser.go) | builder stack, `inElement`, offsets | `Next` | flags that survive from one element to the next |
| Connection grabbers (conn_grabber.go) | listener or server, `grabbing`, `quit` | `Grab`, `Cancel`, `UpgradeToTls` | closing a Go channel that handlers send to; `Cancel` waiting for a loop that waits |
| Local connection (local_conn.go) | two Go channels, deadlines | `Read`, `Write`, `Close`, `Set*Deadline` | timers that race the transfer |
| Registry (memory_auth_user.go) | list of parts | `Authorized`, `BindResource`, `FindPart` | no lock, nothing is removed |
| JIDs, stanzas, stream attributes (channel.go, stanza.go, xmpp_core.go) | none | parsing and printing | round trips |
| Example server and client (example/) | connections, wait group | `Start`, `Stop`, `c2sHandler` | `Stop` against the accept loops |
| Logger (log.go) | none | printing | - |

How they interact. The application builds an `XPart` on a connection, gives it
features and handlers and waits on the channel `Run` returns. `Run`'s goroutine
calls `channel.next()`, which calls the parser, which reads the connection. A
header makes that goroutine run `handleFeatures`: parse the header, `Open`, list
the unresolved features. While a mandatory one is among them, `handleFeatures`
starts a *nested* runner with a limit of one and waits for its verdict; when
none is, the features go to the main runner and `handleFeatures` returns into
the `Run` that called it. A nested runner may read a header itself and nest
again. `Stop` is called from another goroutine and closes the channel under all
of them. On the other side `ClientPart.Negotiate` is one sequential loop.

What makes them correct, component by component:

* runners: one reader at a time; a verdict reaches the application; no feature
  is on offer that nobody would handle; mandatory features first; nothing is
  touched after the end was reported;
* channel: closed is final; whoever is blocked in a read is let go;
* connection: both ends read with the layers the other wrote with;
* client: success means that what the list required was negotiated, here and at
  the server; `Negotiate` returns;
* parser: the stack of builders is the stack of open elements, a stanza comes out
  whole and once, and too large stays too large;
* grabbers and example server: what was accepted is handled unless a shutdown
  interferes, `Stop` and `Cancel` return, `Start` returns last;
* local connection: both sides agree on what was delivered, whichever of timer,
  reader and `Close` comes first (it joins the ends of the tests only, and is not
  modelled);
* JIDs, stanzas and registry: both ends agree on the JID through everything that
  prints and parses it, and the registry finds a part under it.

## 2. Modules

| Module | Models | Builds on |
|---|---|---|
| `XChannel` | one end of a stream as a value: channel state, layers, decoder; its operations as functions | |
| `StreamNegotiation` | abstract: what the negotiation promises, without goroutines | |
| `XPart` | the server end: runners, features, `Stop`, timer | `XChannel` |
| `XPartWorld` | `XPart` with an arbitrary peer; properties; refinement of `StreamNegotiation` | `XPart` |
| `XPartProofs` | theorems about `XPartWorld` | `XPartWorld`, `XChannelProofs`, TLAPS |
| `ClientPart` | the client end | `XChannel` |
| `ClientWorld` | `ClientPart` with an arbitrary server; properties | `ClientPart` |
| `XChannelProofs` | facts about the operations on an end, for both proofs | `XChannel`, TLAPS |
| `ClientProofs` | theorems about `ClientWorld` | `ClientWorld`, `XChannelProofs`, TLAPS |
| `Negotiation` | client and server at the two ends of one connection | `ClientPart`, `XPart` |
| `ChannelRace` | one channel used by a reader and `Stop`, line by line | |
| `ChannelRaceProofs` | theorems about `ChannelRace` | `ChannelRace`, TLAPS |
| `NegotiationProofs` | theorems about `Negotiation` | `Negotiation`, `XPartProofs` (of the server), `XChannelProofs`, TLAPS |
| `ConnGrabber` | both connection grabbers | |
| `ExampleServer` | `Start`, `Stop` and the list of connections on the grabbers; properties | `ConnGrabber` |
| `GrabberProofs` | theorems about `ExampleServer` | `ExampleServer`, TLAPS |
| `Parser` | `Next`, a token a step | |
| `ParserInput` | `Parser` on every well-formed input; properties | `Parser` |
| `ParserProofs` | theorems about `ParserInput` | `ParserInput`, TLAPS |
| `Jid` | parsing, printing and comparing JIDs, as operators | |
| `Stanzas` | `ToElem` and `FromElem` of a stanza and of a binding, as operators | |
| `Identity` | the JIDs of both ends, and the list of parts, through headers, SASL and binding; properties | `Jid`, `Stanzas` |
| `IdentityMC` | the texts `Identity` is checked with | `Identity` |
| `IdentityProofs` | theorems about `Identity` | `Identity`, TLAPS |

**Ends and frames.** `end` is the record of one end: `state` (the two opened
states are one), `up` (the connection is not closed at this end), `timer` (the
`AfterFunc` of `Close` is pending), `tls`, `comp` (what the compressor wraps:
`StartCompress` captures `conn.underlying` once) and `spent` (the XML decoder
keeps its first error for ever). A frame is one write: a kind, the features it
lists, the layers it was written under. A reader takes a frame only under the
layers it reads with; anything else is an error of the decoder. This repository's
writer makes a zlib stream of each frame, and a decoder that has read one under
compression is spent (`AfterRead`); another writer may put several frames into one
stream, which the arbitrary peers of `XPartWorld` and `ClientWorld` do with `ReadOn`.

**Goroutines.** `pc[l]` is the program counter of the runner at level `l`: level
0 is `Run`, level `l + 1` the runner that `handleFeatures` at level `l` started.
An action is what a goroutine does between two points where it can block or
where another goroutine can observe it: `next()` is two steps (the look at the
state, then the read), `handleFeatures` is `Open`, then the list, then the wait;
a handler is one step with everything it sends; SCRAM is two, with the read of
the response in between. `Stop` is three steps: `quit`, the closing tag, the
state and the timer. A send on `errChan` is a step that needs its receiver
(`Tells`), so a runner whose receiver has gone is blocked for ever (`Orphaned`).

**Features.** Each handler follows the pair it returns: caught (`sasl`,
`compress`) uses up the limit of a nested runner; neither caught nor an error
(`starttls`, `bind`) lets the runner read on; an error without caught is passed
on and the runner reads on all the same (`nag`). The panics of
`SaslFailureElemFromError` and `BindErrFromError` set `crashed`.

**The worlds.** In `XPartWorld` and `ClientWorld` the other side writes any of a
set of frames or goes away, at any moment. In `Negotiation` the two `INSTANCE`s
share two queues, and an end sees the other's `conn.Close()` (or its process
ending) after what was written before. Its variable `world` chooses, once and for
all, what the two meet: nothing that fails, or failures and a `Stop` of the server,
or these and a wrong password as well.

**A channel, line by line.** In `XPart` a reader's `Open`, `Close` or upgrade is
one step. `ChannelRace` takes them apart: the look at the state, the encoder's
count of open elements, the frame that goes into its buffer, the look of the flush at
how much there is, the write, the comparison of what was written with what there is
by then, the emptying of the buffer, the state, the timer, each a step of its own, for
a reader that calls anything in any order and one call of `Close` from `Stop`. Nothing
in the encoder or in the writer under it is locked: `overlapped` remembers that two
goroutines have been between its first and last step at once, after which a flush may
repeat, lose or delay frames. Until then only a closing tag crosses an upgrade
(`OnlyEndsCross`), which is the exception that `Negotiation!LayersMatch` makes; two
goroutines in the encoder at once is what the large steps of `XPart` leave out.

**Grabbers.** `loop[g]` is the goroutine of `Grab`, `cancel[g]` the call of
`Cancel`, `at[c]` the place of a connection: in the listener's backlog, in the
hands of a WebSocket handler, offered on the Go channel, taken, served, dropped.
A call of `UpgradeToTls` is two steps, its look at `grabbing` and its stores. `ExampleServer` adds `Start` (a grabber at a time, then the wait group),
the goroutine per grabber that takes connections and appends them to the list in
two steps, and `Stop`, which takes the list (`WalkBegins`), closes its connections one
by one (`ClosesNext`) while appends go on, in the memory it walks through when that has
room and in a copy otherwise (`Stores`), and cancels the grabbers in turn.

**Parser.** A step is a token of the decoder; `ret` is what `Next` has returned,
or that it goes on. `ParserInput` is the decoder: it offers every token a strict
decoder can make next, and keeps beside it the stanza as a plain reader would
have it (`heard`), to compare.

**Names.** A text is a sequence of characters. `Jid` has the library's operators,
with what they do to a JID that already holds something; `Stanzas` those that make
an element of a value and read it back, of which `Read` and `Refused` are the two
results. `Identity` sends these elements, one message under way per connection, as
both ends wait for each other; what is concurrent are the connections, whose parts
append to one list: `Authenticates` reads it, `Lists` writes it back.

## 3. Runs

Twelve runs, each a question of its own; four of them are expected to fail and
are discussed in section 6.

| Run | Configuration | Shows |
|---|---|---|
| `server_negotiation` | XPartNegotiation | Whatever a peer negotiates, in whatever order: mandatory features first (`MandatoryFirst`), every feature on offer has its handler at the level that reads (`OffersServed`), closed is final (`ClosedIsFinal`), nothing moves after the end was reported (`QuietAfterReport`), the promises of `StreamNegotiation` (`Negotiates`), no goroutine is left blocked (`RunnersReturn`) |
| `server_faults` | XPartFaults | Handlers and connections that fail, garbled input, `Stop` at any moment: the inductive invariant (`IInv`), one reader (`OneReader`), a clean end only after `Stop` (`CleanEndOnlyByStop`), `Run` reports (`RunReports`), every goroutine comes to rest or is blocked for good on a verdict nobody reads (`RunnersSettle`) |
| `client_world` | ClientWorld | Whatever a server says: the inductive invariant (`CInv`), no success past a mandatory feature (`MandatoryAnswered`), closed is final (`ClosedIsFinal`), `Negotiate` returns when the server goes (`NegotiateReturns`) |
| `negotiation` | Negotiation | The two ends together: the layers match (`LayersMatch`), success means the same at both ends (`Negotiated`), a wrong password never succeeds (`RejectedFails`), what can complete does (`Completes`), and neither end is left waiting (`NegotiateReturns`, `ServerHears`) |
| `channel_race` | ChannelRace | A reader and `Stop` at every line of a channel and every step of its buffered writer: as long as no two are in the encoder no closing tag without a header (`EndsAreBalanced`); only a closing tag crosses an upgrade, and otherwise a header that was held up there (`OnlyEndsCross`); `Stop` drops the connection in any case (`StopDrops`) |
| `example_server` | ExampleServer | A grabber of each kind, clients that connect, `Stop` at any time: what an accepted connection can be lost to (`LostOnlyAtShutdown`), what the list forgets (`Remembered`), that `Stop` closes what was served when it was called, while the list grows under it (`ClosesWhatItFound`), which calls can turn a grabber's `Type()` against its listener (`TypeTurnsEarly`); `Start` returns last (`ReturnsLast`), `Stop` returns, and `Start` with it (`StopAndStartReturn`), accepted connections are served (`AcceptedServed`) |
| `parser` | ParserInput | Every well-formed input: the stack is the stack of open elements (`StackMatches`), a stanza comes out whole and when it ends (`StanzasReturned`), too large is final (`TooLargeIsFinal`), a stanza read by one call keeps the limit (`ReadAtOnceIsLimited`) |
| `identity` | Identity | Both ends have the same JID (`BoundAlike`), headers are answered to it (`AnsweredByName`), `FindPart` finds it (`FoundByOwnJid`), the list loses nothing but to overlapping appends (`ListedUnlessRaced`) |
| `handlers_reached` | NegotiationHandlers | `HandlersReached` is **violated** |
| `authenticated_first` | XPartAuthenticated | `AuthenticatedFirst` is **violated** |
| `compression_completes` | NegotiationComp | `Completes` is **violated** |
| `done_by_list` | ClientDone | `DoneByList` is **violated** |

**Bounds of the server.** `MaxFrames` is the number of frames the arbitrary peer
writes, and the only thing that ends a run. Seven (`XPartNegotiation`) are what it
takes to open, use all three features that end or keep a nested runner in any
order, and come back to the main runner: header, starttls, header, auth, header,
compress, header. That run leaves out SCRAM, what is refused and what is garbled, which
`XPartFaults` has with three frames: enough for a failure at every level in use and
a `Stop` at every point of it; `Negotiation` has SCRAM with a real client.
`MaxDepth` bounds the levels; it is never smaller than the number of headers that
can be read minus one in `XPartNegotiation` and `XPartFaults`, so `OfferMandatory`
is never held back by it. In `Negotiation` it is 3, and the runners never get
deeper than 2 there: the client sends a mandatory feature and a header in turn, and
only two features are mandatory. The peer writes a frame when the last was taken: a
peer that writes ahead changes what a goroutine can see in two ways only. At an
upgrade of layers its frames are unreadable, which `Breaks` covers; under compression
several frames may be in one zlib stream, which `PeerWrites` and `ServerWrites` allow
by `ReadOn`. Nothing is
symmetric in these models: levels are ordered and features differ.

**Bounds of the other runs.** `ClientWorld`: six frames of a server, so that a list,
an exchange and another list fit in. `ChannelRace`: three headers, and elements up to five frames;
a second `Open` is what an upgrade needs, the third what a closed channel that is
opened again needs. `ExampleServer`: two connections and a grabber of each kind, the
smallest in which two appends overlap and in which one grabber can be cancelled
while the other still accepts; the application may upgrade the TCP grabber while
`Start` sets the grabbers up, in a call that may last as long as it likes
(`Upgrading`). `ParserInput`: up to seven bytes in tokens of one byte or three, and of
none for the end tag the decoder makes of `<a/>`, nested three deep, with a limit of five bytes or none, so that
a limit is passed by one token and by several, inside a stanza and between two.
`Identity`: two connections, of one user or of two, and resources with and without
slashes (one that has an "@" is refused in a header, and is not asked for); a Go slice of up to two elements
that `append` grows one at a time has no room to spare, so an append is a load and a
store of the whole list, as it is in `ExampleServer` (whose proofs need no such bound:
there `Stop` may find an append in the memory it walks through).

**Fairness.** `ServerFair` is weak fairness of every goroutine (the Go scheduler
runs what is runnable), of `Stop` once called, and of the pending timer. Nothing
obliges the peer to write or to go, the application to call `Stop` or a
connection to fail. `Negotiation!FairSpec` adds the client's goroutine and the
application that stops a client whose negotiation failed or whose `Run` ended,
as the example client does. Its `Stop` of a client that is done stays free.
`ClientWorld!FairSpec` has the client's goroutine and its timer; as `Negotiate` has
no timeout, `NegotiateReturns` starts from a server that goes. In `ChannelRace` a goroutine goes on with a call it has begun and timers
fire; nobody has to call anything. In `ExampleServer` every goroutine of the
server, `Start` and a `Stop` that was called go on; no client has to connect.

**Deadlock** is not checked: a stream ends, and after that nothing happens. What
deadlock freedom would say is said by `RunReports`, `RunnersSettle`,
`RunnersReturn`, `NegotiateReturns`, `ServerHears`, `StopAndStartReturn` and
`StopDrops`.

Operators whose comment starts with "Mutant" are plausible mistakes in the
definition that follows them. No action uses them; with one of them in the place
of its original a run must find its property violated.

## 4. Proofs

Every theorem holds for all values of the constants that the assumptions (`ASSUME`)
of its modules allow: any set of features and faults, any number of connections and
grabbers, any bound, any frame or token the other side may send. What a theorem
assumes besides is named in its statement and below.

**The server.** None of the safety properties is inductive. `OneReader` follows
from `Stack`: below a level that is alive, every other is waiting, on its way
out or gone. `Stack` is kept because only a level that runs starts the next one
(and then waits), and a report either ends the reporting level or ends the one
that waited for it. `MandatoryFirst` and `OffersServed` follow from `Served`: what
is unresolved was in the last list, and has its handler at every level that is
alive, at level 0 only while that level is reading. `Served` needs `Stack`: a
voluntary list sent at a high level registers with the main runner, which is not
reading then. `CleanEndOnlyByStop` needs `Verdicts`: a limit exists only above
level 0, and `quit` is never taken back.

    IInv == TypeOK /\ Stack /\ Served /\ Verdicts

`ServerStepType` and `OthersStepType` prove the type part action by action.
`StepShape` then sorts every step of a goroutine into four: work of its own
(changes its own counter, at most one `handled` flag, nothing of anybody else),
the two offers, and a report. `WorkKeepsInv`, `OfferKeepsInv` and
`ReportKeepsInv` prove the rest of the invariant for these, and `StepNegotiates`
maps the same steps to `Offer`, `Resolve` and stuttering.

`ClosedIsFinal` and `QuietAfterReport` do not hold when anybody may call `Stop` or a
connection may fail (a `Stop` races whatever the readers do), so both theorems are
stated under `Undisturbed == Faults = {} /\ CanStop = FALSE`, which the constants of
`server_negotiation` satisfy; panics are in, and so is everything a peer may write.
`QInv` adds to `IInv` that nobody quits (`Calm`), that below a goroutine that is alive
all others wait (`Nested`), that once the stream is closed its
error is on its way down and nobody reads (`Still`), and that the application is told
last (`Done`).

| Theorem (`XPartProofs`) | Property |
|---|---|
| `Invariant` | `IInv` |
| `TypeCorrect` | `TypeOK`, a part of it |
| `RunnersStack` | `Stack`, a part of it |
| `SingleReader` | `OneReader` |
| `MandatoryComesFirst` | `MandatoryFirst` |
| `OffersAreServed` | `OffersServed` |
| `CleanEnd` | `CleanEndOnlyByStop` |
| `Refinement` | `Negotiates` |
| `ClosedForGood` | `ClosedIsFinal` (server), if `Undisturbed` |
| `ReportIsTheEnd` | `QuietAfterReport`, if `Undisturbed` |

**The client.** `MandatoryAnswered` looks at a success only; `CInv` says where the
mandatory features of a list are on the way there: not tried yet (`selectOne` takes
them before the others), asked for, or settled when the next header is awaited. A
list without one, an empty list and an element that is no list need their own cases
in `NegotiatesKeepsInv`, and no other feature can be asked for while a mandatory one
is left (`MandatorySelected`). The second conjunct of `CInv`, that `Negotiate` is over
when the channel is closed, makes `ClosedIsFinal` a property of one step
(`ClosedStep`): only `Open` could take the channel up again.

| Theorem (`ClientProofs`) | Property |
|---|---|
| `ClientTypeCorrect` | `WorldTypeOK` |
| `MandatoryPending` | `CInv` |
| `MandatoryIsAnswered` | `MandatoryAnswered` |
| `ClosedStaysClosed` | `ClosedIsFinal` (client) |

**Both ends together.** The two ends take turns, and that is the invariant: at any
moment only one of them has something to say, and what is under way is what was
asked or its answer.

    NInv == P!IInv /\ TypeOK /\ Taking /\ Answering /\ Layered /\ Compressing /\ Knowing

`P` is the server's proof module, instantiated with the server's variables:
`NInv` takes over its invariant and `P!StepInv`, that its steps keep it. `Taking` says
that only one end has something to say, `Answering` that what is under way while the
client negotiates is what it has asked for or the answer to it, `Layered` that the
layers differ only between the two halves of an upgrade, `Compressing` that nobody
has TLS or SASL left to settle once compression is asked for, and `Knowing` that what the client has settled the server has handled. The steps of each end are
sorted by what the other can notice (`SRests`, `SReplies`, `SOpens`, `SLists`, `SGivesUp`
and `CRests`, `CAwaits`, `CLearns`, `CPasses`, `CAsks`, `CResponds`, `CReopens`), and each sort
keeps each part. The assumption on the constants, `ConstantsAssumption`, is that of
`XPart` and `ClientPart` for what `Negotiation` gives them.

| Theorem (`NegotiationProofs`) | Property |
|---|---|
| `NegotiationInvariant` | `NInv` |
| `LayersAgree` | `LayersMatch` |
| `SuccessMeansNegotiated` | `Negotiated` |
| `RejectedNeverSucceeds` | `RejectedFails` |

**A channel, line by line.** Until two goroutines have met in the encoder, whoever
is in it is there alone, and flushes the one frame it has put there itself (`Alone`);
only a connection that is gone breaks the writer. `Stop` writes a closing tag and
nothing else (`Stopping`), the reader puts headers and closing tags into the encoder
(`Reading`), and `<proceed/>` is the last thing the reader writes in the
clear (`Upgrading`).

    CrossInv   == TypeOK /\ Stopping /\ Reading /\ Alone /\ Upgrading /\ OnlyEndsCross
    BalanceInv == CrossInv /\ Balanced

`Balanced` adds, until two have met, that the encoder's count of open elements is what
the wire leaves open together with the frames that are encoded and not written yet
(`Weight`), and that no beginning of the wire has more closing tags than headers.

| Theorem (`ChannelRaceProofs`) | Property |
|---|---|
| `NothingElseCrosses` | `OnlyEndsCross` |
| `PeerReadsBalanced` | `EndsAreBalanced` |

**Grabbers and example server.** The wait group counts the goroutines that take
connections and are not over (`Waiting`); one that is over has seen its channel closed,
which a TCP grabber does only at the end of its loop and a WebSocket grabber only
once it is cancelled (`Closing`); a TCP connection is offered only by the loop that
holds it (`Offering`); who took a connection holds it until it is served (`Taking`); and every
list that is there or about to be written back has all who did not race (`Appending`).
What did not race has, in each of these lists and in the one `Stop` walks through, a
place that the others have too, so that no append writes over it (`Sharing`); what was
served when `Stop` was called is closed or still ahead of its walk (`Walking`). And a call
of `UpgradeToTls` that has passed its check passed it before the loop's first line or
after its last (`Passing`).

    GInv == /\ TypeOK /\ Listening /\ Closing /\ Offering /\ Waiting /\ Taking /\ Appending
            /\ Sharing /\ Walking /\ Passing

| Theorem (`GrabberProofs`) | Property |
|---|---|
| `GrabberInvariant` | `GInv` |
| `StartReturnsLast` | `ReturnsLast` |
| `ListRemembers` | `Remembered` |
| `StopClosesFirst` | `ClosesWhatItFound` |
| `OnlyShutdownLoses` | `LostOnlyAtShutdown` |
| `TypeTurnsOnlyEarly` | `TypeTurnsEarly` |

**The parser.** `Matching`: until the stack is torn it has a builder for every element
that is open, in their order. That an end tag belongs to the builder on top follows
from counting the elements among the open tags (`FitsPush`, `FitsPop`). `Limiting` is what
the limit is measured from: never ahead of what was read, and not past the beginning
of a stanza that one call reads.

    PInv == TypeOK /\ Matching /\ Limiting /\ ReadAtOnceIsLimited

`Returning` adds what the builders hold: their tags and children, one builder after the
other, are what was heard of the stanza, apart from the texts (`Holds`). A start tag is a
builder more (`HoldsPush`), an end tag moves what the last one holds to its parent
(`HoldsPop`), and at the end of the stanza a single builder holds all of it
(`HoldsEnd`). `Markup`, which leaves the texts out of a sequence of any length, is a
recursive function; that it exists and that it may be taken of two sequences one after
the other (`WithoutIsThere`, `MarkupOfBoth`) is proved from a least counterexample, with
no induction theorem.

| Theorem (`ParserProofs`) | Property |
|---|---|
| `ParserInvariant` | `PInv` |
| `StackIsTheOpenElements` | `StackMatches` |
| `StanzasAreReturned` | `StanzasReturned` |
| `NoPanicUnlessTorn` | no `Panic` until the stack is torn |
| `TooLargeStaysRefused` | `TooLargeIsFinal` |
| `LimitHolds` | `ReadAtOnceIsLimited` |

**Names and the list.** `IdInv` says that every list, stored or about to be, has exactly parts that
authenticated, and all of them but who raced. `NamesInv` adds what is under way on each
connection and what both ends know then (`Talking`): before the first header nothing, after a
header everything, after SASL the resource alone, since SCRAM loses the name. It needs
that an address is read back as it was printed (`ReadBack`, from the place of the "@"
and of the first slash), that a resource printed without its outer slashes is printed
the same from then on (`TrimOfKept`), and that bindings are read back (`RequestRead`,
`ResponseRead`). Names an address cannot be read back from are excluded by hypothesis:

    Addressable == no empty user, a domain that is not empty and has no "/",
                   and no "@" in a resource that is asked for
    Findable    == no resource that is asked for is made of slashes alone

A user or domain with an "@" in it is not excluded: its header is refused. Without
`Findable` a part is bound to the slashes, and its client, which is told an address
without a resource, does not find it.

| Theorem (`IdentityProofs`) | Property |
|---|---|
| `OnlyARaceLosesAPart` | `ListedUnlessRaced` |
| `NamesInvariant` | `NamesInv`, if `Addressable` |
| `BothEndsAlike` | `BoundAlike`, if `Addressable` |
| `HeadersAnsweredByName` | `AnsweredByName`, if `Addressable` |
| `FoundByItsName` | `FoundByOwnJid`, if `Addressable` and `Findable` |

**Only model-checked.** The liveness properties, for fairness and `ENABLED` are beyond
the prover: `RunReports`, `RunnersReturn`, `RunnersSettle`, `NegotiateReturns`, `Completes`,
`ServerHears`, `StopDrops`, `StopAndStartReturn`, `AcceptedServed`.

## 5. What is abstracted, what is not modelled

Stream and features:

* A list says that `starttls` is required and `bind` is not, as the features of
  the examples do; other features of a list are required or not by their name.
  Mechanisms the client does not know are an error of `ToAuth`'s caller like
  others and are left out.
* TLS is 1.3, which channel binding needs (conn.go:75-85). A TLS handshake that
  fails is a connection that fails.
* The text of an error of a read on TCP has a colon in it, so
  `SaslFailureElemFromError` does not panic on it; `ErrChannelClosed` has none. A
  panic is an outcome (`crashed`) after which nothing is promised.
* In `XPart` a handler is one step: `Stop` does not come between `<proceed/>` and
  `StartTLS`, nor inside a reader's own `Close`. `ChannelRace` has these steps apart,
  for the channel alone. `Stop` of the client comes after `Negotiate`.
* White space and XML declarations are one kind of frame; headers are accepted
  or refused by `XPart`, and have their address in `Identity`. Version, language and
  id of a header, and `ParseToClient`, which nobody calls, are left out.
* Short writes: no connection of the repository reports one, so the loop of
  `Send` is one write. Deadlines of a connection are left out: nothing sets one.
* `Stop` between the change of state in `Open` and the flush of the header may write
  its closing tag into a stream whose header comes after it; the encoder refuses an
  end without a start, and such a stream ends without a tag (`ChannelRace`).
* In `ChannelRace` a frame is one slot of the encoder's buffer, and the stack of its
  open tags is a number that one step changes: two goroutines in `EncodeToken` may
  mix the bytes of their tags as well, which only adds to what is said in section 6.
  `TcpConn.Write` takes its layer and writes in one step.
* `SendToken` returns the error of `EncodeToken` and drops that of the flush
  (channel.go:244-247), so that `Open` on a connection that is down fails only when
  the encoder's writer has kept an earlier error: `XPart!Open` goes on or raises,
  `ClientPart!Reopen` goes on to the read that fails.
* An error `iq` that echoes `<bind/>` is taken for a result by the client
  (client_bind_feature.go:37-44), and is one in `ClientPart`.
* A list's `<compression/>` has a method the client supports: with none,
  the client asks for a method without a name, and panics on a server that agrees
  (client_compress_feature.go:48 uses a nil builder).

Grabbers and example server:

* `net`, `crypto/tls`, `net/http` and the upgrader are external. A listener that
  closes resets its backlog; `Shutdown` runs its hook in a goroutine and waits for
  the connections that were not hijacked.
* One call of `Start` and one of `Stop`. A second `Stop` would block in the second
  `Cancel` of a TCP grabber (`quit` has no receiver) and close a closed channel in
  the hook of a WebSocket grabber.
* `Grab` of a TCP grabber that cannot listen makes the example server panic at once;
  a WebSocket grabber that cannot is `Listens` going straight to "over".
* A WebSocket grabber over TLS hands over a connection whose type assertion
  (conn_grabber.go:73) failed; connections are plain here.
* The list is appended to without a lock. A lost entry is an outcome (`raced`); a
  torn slice header, which Go does not exclude, is not.
* A connection that is accepted after `Stop` was called may stay open, and so may one
  whose append overlapped another: `ClosesWhatItFound` says what is promised.
* `append` writes the element and `s.conns` in one step, `UpgradeToTls` both file names;
  `Grab` and `Listens` read them and listen in one step.

Parser, names, registry:

* The XML decoder is external and strict: `ParserInput` offers the tokens it can make
  next. Attributes are left out; a text is white space or a word.
* The user tables of memory_auth_user.go are constant once filled, and are the choice
  between success and failure of an authentication; hashes are left out. Parts never
  leave the list.
* Of stanza.go `Stanzas` has what the binding sends; the error stanzas, `Failure` and
  the presence and message types are values nobody in the repository reads back from
  a stream in a way a state could depend on.

Not modelled: the local connection (local_conn.go), which joins the two ends of a
test; the logger; the byte formats of zlib, TLS and SCRAM; main.go and the client
written with go-xmpp.

## 6. Where the code and its documents differ

1. **`handlers_reached`.** README.md:14: "register element handler with
   `Part::WithElemHandler`". `<starttls/>` is handled at level 1 and not reported
   as caught (tls_feature.go:50-65), so that runner stays and reads everything
   that follows, with its own handlers: the features that were unresolved when
   it started. Level 0, which has the application's handlers, waits.
2. **`authenticated_first`.** The diagram above `handleFeatures`
   (xmpp_core.go:327-329) has "MUST negotiate one feature". `saslFeature.Handle`
   sets `handled` first and returns caught with the error of a failed mechanism,
   which `Run` ignores (xmpp_core.go:126).
3. **`compression_completes`.** The diagram above `ClientPart.handleFeatures`
   (client_part.go:94-113) leads from a negotiated feature to DONE.
   `CompZlib.Read` (compress.go:29-36) returns `io.EOF` at the end of every
   compressed write; the decoder keeps it. The server reports an error to its
   application, which does not close the connection (example/server/server.go:152),
   and the client waits for a header.
4. **`done_by_list`.** The same diagram (client_part.go:90-92) receives stream
   features before DONE; `serverFeatures` (client_part.go:202-204) returns neither
   a list nor an error for another element, and `Negotiate` returns success.

Differences met while reading that no run is about:

* `UpgradeToTls` refuses a grabber that is grabbing (conn_grabber.go:136), but the
  flag is set by the goroutine of `Grab` (conn_grabber.go:165), and the files are
  stored after the look at it, without a lock (conn_grabber.go:139-140). A call that
  looks before that goroutine's first line may store the certificate after `Grab` has
  listened, at once or when connections have long been accepted, and `Type()` says TLS
  of a listener that is none. `TypeTurnsEarly` shows that no other call does it.
* `SendToken` encodes and flushes without a lock (channel.go:244-245), and the
  `bufio.Writer` writes its buffer before it empties it. When the closing tag of `Stop`
  and that of a reader meet there, both flushes may write the same bytes: the peer reads
  header, end, end. When `Stop` begins its flush while a header is buffered and is held up
  there, header and closing tag may be written in the clear after `<proceed/>`. TLC
  finds both when the conditions on `overlapped` are taken out of `EndsAreBalanced` and
  `OnlyEndsCross`; with them the two properties say that nothing of the kind happens
  until two goroutines have met in the encoder.
* The README gives the grabbers of the example server their certificates
  (README.md:72 and 86); example/server/server.go does not, so its listeners are plain
  and TLS is left to STARTTLS.
* `ErrTooLargeStanza` is documented for "the size of the incoming stanza"
  (parser.go:18). The size is counted from `lastOffset` (parser.go:58), which white
  space and headers inside a stanza move (parser.go:70, 83), since `inElement` is
  FALSE after every child (parser.go:160): only a stanza read by one call keeps the
  limit, which is `ReadAtOnceIsLimited`.
* "builds an array with the structure of all tag and data elements" (parser.go:30):
  a text after a child is handed to the caller of `Next` or refused, and a second
  text replaces the first.
* `ErrStreamClosedByPeer` "will be returned" when a closing tag is parsed
  (parser.go:24); nothing returns it.
* `LocalConn.Write` without a deadline arms a timer that fires at once
  (local_conn.go:87), and a `Read` shorter than what was written drops the rest
  (local_conn.go:80).
* `Failure.ToElem` leaves the namespace on the description and not on `<failure/>`
  (stanza.go:147, 155), where `Failure.FromElem` looks for it (stanza.go:131).
* `ScramAuth.Auth` never assigns the username it returns (scram_auth.go:44-81):
  `Authorized` is called with an empty one, and the header of the next stream puts it
  back (`BoundAlike`).
* `ParseJID` refuses a resource with an "@" in it (channel.go:62), which RFC 6122
  allows: a client whose JID has one is refused at its first header (`RefusesHeader`),
  and a client that asks for one is bound to a JID it cannot parse, so that the two
  ends would differ; `BoundAlike` is about the other resources.

## 7. Plan

Done: the server (`XChannel`, `StreamNegotiation`, `XPart`, `XPartWorld`), the client
(`ClientPart`, `ClientWorld`), both together (`Negotiation`), the channel line by line
(`ChannelRace`), the grabbers and the example server (`ConnGrabber`,
`ExampleServer`), the parser (`Parser`, `ParserInput`), names and the registry (`Jid`,
`Stanzas`, `Identity`); the theorems of `XPartProofs`, `ClientProofs`, `NegotiationProofs`,
`ChannelRaceProofs`, `GrabberProofs`, `ParserProofs` and `IdentityProofs`: every safety
property of every passing run is a theorem.

Left: the safety half of the liveness properties, as lemmas that no step undoes what they
wait for (a goroutine that has returned stays returned, a stopper that waits has a
reader that is alive); `ClosedIsFinal` and `QuietAfterReport` for the steps that a `Stop` does
not race; and the local connection, which no program uses.
