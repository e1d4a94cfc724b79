# A verification of LibAST in TLA+

LibAST is a C library: a configuration-file parser, memory management with leak
tracking, lists, strings and buffers, sockets, thread and regular-expression
wrappers, option parsing. This directory models its state machines and its text
algorithms in TLA+, checks them with TLC on small instances and proves the main
results with TLAPS for every instance. `PROJECT.json` maps each definition to the
lines it models.

## The system

| Component | State | Operations | What is hard | What makes it correct |
|---|---|---|---|---|
| configuration parser, `src/conf.c`, `libast_internal.h` | file stack `fstate`, context stack `ctx_state`, registered contexts and built-ins, variables, working directory | `spifconf_parse`, `spifconf_parse_line`, `spifconf_register_*`, `file_*` and `ctx_*` macros, `spifconf_shell_expand` | files push files in the middle of a loop, handlers act on both stacks, early returns through a macro, command-line lines share the file path, unsigned char indexes | no stream leaked or closed twice; handler calls nest; a handler gets its own state; a parse ends |
| memory management, `src/mem.c` | `malloc_rec` (also pixmap and GC records), debug level | `spifmem_malloc/calloc/realloc/free/strdup`, `memrec_*`, dumps | the level may change between calls; addresses are reused and move | the records are the live blocks |
| lists, `src/array.c`, `linked_list.c`, `dlinked_list.c` | items with links, head, tail, length | append, insert, remove, reverse, duplicate, iterate, vector and map views | links kept by hand, boundaries of index and emptiness | the three implement one list |
| strings and buffers, `src/str.c`, `ustr.c`, `mbuff.c` | bytes, length, capacity | splice, append, trim, read from a stream or descriptor | growing while reading; negative indexes | length within capacity; bytes preserved |
| threads, `src/pthreads.c` | handle, creator, list of keys of thread-local storage | run, kill, detach, `tls_*`, mutex and condition (waits and locks are stubs) | handles shared by threads | a handle keeps naming its storage |
| sockets, `src/socket.c` | descriptor, flags, addresses | open, close, accept, send, duplicate | each system call may fail; accept and dup share descriptions | one owner per descriptor; flags say what the kernel has; nothing leaks unseen |
| tokenizer and words, `src/tok.c`, `strings.c` | a text | `tok_eval`, `split`, `join`, `get_word`, `get_pword`, `num_words` | quotes and escapes at the end of the text | words come back; no scan leaves the text |
| options, `src/options.c` | argv, the current option, the number of bad ones | `spifopt_parse` in one or two passes | bundled letters, missing values, removal while walking | every option handled as written; the loop ends |
| URLs, `src/url.c` | the parts | parse, unparse, duplicate | parts that contain one another's separators | parse and unparse are inverse |
| version comparison, `strings.c` | none | `spiftool_version_compare` | runs of letters and digits that meet | an order |
| messages, debugging, hashes, regexp, modules, objects, temporary files, AVL tree (not compiled) | none of interest | | | not modelled |

How they interact: every component allocates through `mem.c` and creates objects
of `obj.c`; the parser calls the client's context handlers and is called by the
client with a file or with one line of the command line, and takes lines apart
with the word functions; the threads keep their
keys in an `array` of `mbuff`s; the tokenizer returns a `dlinked_list` of `str`s;
sockets read into `str`s. Nothing in the library locks anything: what its own
code makes concurrent is left to the client.

## Modules

* **SpifConf** is the parser. `mode` says where the program is: in the client, in the
  loop of `spifconf_parse()`, in a command-line `spifconf_parse_line()`, before
  its return, or stopped. `fstate`, `fstate_idx`, `ctx_state`, `ctx_state_idx`
  are the variables of conf.c; a pop only lowers the index, and the slots above it keep
  what they held. Outside are `open` and `temps`, the streams and temporary files, `left`,
  how many lines a stream still has, and `stray`, the descriptors that a %preproc made and
  then left when fchmod() or fdopen() failed. `call`, the last handler call, and `round`,
  whether the index has come back into the array from above, are there for the properties.
  A line is its kind, and what the file holds is chosen when the line is read. One action
  is one line with everything it does (`IncludeLine`, `PreprocLine`, and `PreprocCloses`
  and `PreprocFails` for what can go wrong in it, `BeginLine`, `EndLine`, `TextLine`,
  `IgnoredLine`, `SkippedLine`, and the two outcomes of a repeated %preproc); `Eof` is
  the end of the loop's body. What a handler answers is chosen freely. `ParseRet` is the SPIFCONF_PARSE_RET macro
  with a NULL stream. `ArgvLine`, `ArgvBlank` and `ArgvReturn` are the
  command-line entry. Undefined behaviour is a choice: an index outside the
  array may read any flag and may stop the process; reading a stream that is closed may
  stop it, or look like the end of the file; the uninitialized pointer
  of %preproc is `StaleFp`; what a failed ASSERT_RVAL does in the build is
  `OnAssert`.
* **ConfProtocol** is what the parser promises a client's handlers: BEGIN and END
  calls nest and lines go to the innermost context. `SpifConf!Protocol`
  instantiates it with the context stack and the last call.
* **ConfClient** adds clients that keep one object per open context, in the two
  conventions for what END returns: NULL, as conf.c documents it, or the state BEGIN got.
* **ConfStack** is how the three arrays of conf.c grow, with counters of a byte.
* **SpifMem** is mem.c: `live` is the C heap, `recs` is `malloc_rec`, `level` is the
  debug level against DEBUG_MEM. `gap` and `tracked` are history: whether the level
  was ever lower, and which live blocks never had a call while it was.
* **ThreadTLS** is the thread-local storage of one thread object of pthreads.c:
  `tls_keys` is its list, with the indexes and the refusals of array.c; `created`,
  `value` and `owner` are POSIX keys, their values and the C heap, which reuse what
  was given back. Each action is one `tls_*` method called by a thread with any
  handle, the exit of a thread with its destructors, or `spif_pthreads_done()`.
  `given` and `lost` are history: the handles in clients' hands, and the blocks
  that failed allocations leak.
* **ConfTables** has the parser's tables by name: `context`, `builtins` (with the slots
  the table grows by) and `confVars`, the sorted list of %put(), put in order and taken
  out by place. `told` and `puts` are history: the names the client asked to be kept,
  and the value each variable was last given.
* **ShellExpand** is `spifconf_shell_expand()` as a scan over a line, its buffer of
  CONFIG_BUFF bytes included: quotes, escapes, `$`, `~`, calls and backquotes, which
  expand their parameters in turn. `Elements` is the same line as it is meant.
* **ConfFiles** is how a parse finds its file, changes directory and comes back. A path is
  its names and the number of slashes before them, two counting for more: `/f` and `//f`
  are the same file, and cutting them at the last slash gives nothing and the root.
* **ListSpec** is what a list, a vector and a map hold, and where the loops over them
  stop (`Scan`, and `PlaceFor`, `FirstSame`, `FirstWith`, `FirstFrom` for what they look
  for). **SpifArray**, **LinkedList**
  and **DLinkedList** are the three classes; the last one node by node (`next`,
  `prev`, `head`, `tail`), with nodes that are freed and taken again. `arrOk`, `lnkOk`,
  `dOk` turn FALSE at an access outside. **ListImpls** makes the same calls on all
  three, as the library's tests do. Where the classes part, `parted` names those that
  answer or link differently; the client then takes new lists, so that one oddity
  does not hide the next. `crooked` says that links were left unattended.
* **TextSpec** is a text with the operations of a scripting language, and the bytes
  below it: a buffer, a size, a length, and `wild`, set by an access outside of the
  buffer. **Str** (and **Ustr**, which repeats it) and **Mbuff** are the classes;
  **TextImpls** runs them in step, with `textParted` as above.
* **Socket** has socket objects over the descriptors of a process: `file` maps
  descriptors to open descriptions, which `dup(2)` shares, and the kernel may fail
  at every call.
* **Options** is `spifopt_parse()`: one step is one pass of its loop over the words of
  a line. **Words**, **UrlText** and **Version** hold the algorithms on texts, as
  operators, and the variable a user types or compares.
* **MCClients** is the program that uses one of the parts: the parts share no state, so
  `part` picks one and the others stay as they are. **MCListImpls,
  MCSpifConf, MCConfClient, MCSpifMem, MCThreadTLS** add the symmetry sets for TLC.
* **ConfProofs** holds the theorems on SpifConf and ConfClient, the refinement of
  ConfProtocol among them; **SpifMemProofs, ThreadTLSProofs, ListImplsProofs** those
  on the module they are named after; **TextProofs** those on TextImpls and the classes
  it runs; **ListChainProofs** the lemmas on what each
  handler of a dlinked_list does to its nodes; **PartsProofs** the theorems on ConfStack,
  ConfTables, ConfFiles, Version, UrlText and Socket; and **DataLemmas** the facts they share: every nonempty set of
  naturals has a least element, and what Append, RemoveAt, InsertAt, Front and a
  concatenation do to each element.

## Runs

| Run | What it shows | Bounds |
|---|---|---|
| `conf_files` | `StreamsOwned`, `FilesBelowUntouched`, `CallsNest` (the refinement of ConfProtocol), `Terminates` | 3 streams, 3 files deep, 2 contexts deep, 2 lines a file: an include in an include, a %preproc below an include, one that fails with and without a descriptor left, a context that begins in one file and ends in another. No symmetry, as it would not be sound for `Terminates` |
| `conf_argv` | `NoUseAfterClose` with command-line lines mixed in | a byte of 6 values (`Byte`, 256 in the other runs) for 3 slots, so that the index wraps below 0, goes all the way down and comes into the array again; 3 streams, 2 files deep; both values of the stale pointer |
| `conf_client` | `LiveAreOpen`, `CallsGetLiveState` for clients that return the enclosing state | 3 objects, 3 contexts deep, 2 files |
| `conf_stack` | `TopInArray` | every index up to 159 |
| `mem_levels` | `TrackedRecorded`, `RecordsAreLive` | 3 addresses, 4 records, sizes 0 to 2: one more record than addresses, so a stale and a fresh record of one address meet, and a product that overflows |
| `tls_handles` | `HeldOnce`, `OnlyOwnStorage`, `ListedExist`, `SureHandlesName` | 2 threads, 3 keys, 3 blocks: the limit of keys is met, with a block leaked there; three places make a free in the middle differ from one at an end; keys and addresses are reused |
| `list_classes` | `SameContents` (the three hold the same, and a call named as parting really does part), `Linked` (the chain back is the chain forward), `Sorted`, `ReadsAgree` | 6 nodes, lists of up to 6, indexes from -6 to 6, past both ends; 2 keys and 2 values, so that equal objects meet. Both halves of the dlinked_list's walk, and the node in the middle, occur from 4 elements on |
| `client_parts` | sockets: `OneOwner`, `FlagsTrue`, `BoundWhereAsked`, `LostOnlyBySendOrAccept`; text: `SameText`, `TextReadsAgree`; options: `HandledAsWritten`, `LeftAsWritten`, `EndsInTime`; words: `QuotedWordsComeBack`, `ScansStopAtTheEnd`, `WordsCounted`; `UrlComesBack`; `VersionsOrdered`; parser: `TablesAnswer`, `ExpandsAsMeant`, `DirectoryComesBack` | 2 sockets over 3 descriptors: a listener, what it accepts, and none left; texts of 3 with 2 spare bytes, where a reader grows its buffer of 2 and a signal interrupts one of its reads; lines of 3 items of every kind of option, lists with their value joined to them, `-lx` and `-blx`, among them; every text of 5 characters for the words and of 6 for URLs; all triples of 26 versions; tables of 4 entries, which grow once; every line of 3 pieces in a buffer of 8, so that values are cut; files in `/`, `/d` and `/d/d`, the directories ``, `/`, `d` and `/d`, and up to three of them on the path |
| `conf_v_argv`, `conf_v_preproc`, `conf_v_nested`, `tls_v_placeholder` | where the code does not do what its documentation says, see below | |

`conf_argv` and `tls_handles` do not check for deadlock, as the process may be
stopped, nor does `client_parts`, whose programs end; the `*_v_*` runs neither. MaxFiles, MaxDepth, MaxLines, MaxRecs, Limit, Blocks,
MaxLen, Far, MaxText, MaxSlack, MaxSource, MaxUrl, MaxTable, MaxPieces and MaxFd are the
bounds, each in a guard named in its module; none stands for a limit of the
code, except that `conf_stack` stops at 159 because index 160 breaks the array
(a count of 160 doubles to 64 in a byte).

Fairness: `FairSpec` has weak fairness of `ParseStep` only. The caller of
`spifconf_parse()` is blocked in its loop until it returns, lines come from
regular files, and the handlers are assumed to return; the client itself is
never obliged to call.

## What is proved

* `TypeCorrect` (SpifConf): the type invariant, inductive as it stands. It holds in
  file and command-line mode, for every outcome of the undefined behaviours,
  and says that the context stack is never popped below frame 0.
* `NothingReadAfterClose`: `NoUseAfterClose`, in every mode and for every range of the
  index byte. The invariant `LiveOpen` adds that no two slots up to the index hold the same
  stream, or closing the one on top would leave another closed below it. While the index is
  above the array nothing is said of the slots: a command-line line wraps it there from 0,
  and a push that brings it from 255 back to 0 writes slot 0, the only one that is on
  the stack then. Coming down instead, `round`, it finds the slots as the last files left
  them, and the property ends there (see below).
* `StreamsOwnedInFileMode`: `StreamsOwned`, for clients that only parse files (no
  command-line lines, and the stale pointer not NULL, the assumption `FileMode`: without
  it files are popped that were not pushed or not read: `conf_v_argv`, `conf_v_preproc`). The inductive
  invariant `StreamsInv` adds the type, that `mode` is "idle" or "parse", that slot 0
  holds no stream, and that the temporary file of a preprocessed slot is that of its stream,
  so that Eof removes the one it should. The descriptors and files of a %preproc that
  failed half-way are `stray`, and the theorem says that they are all that is ever left.
* `FilesBelowKept`: `FilesBelowUntouched`, an action property, under `FileMode` and from
  `StreamsInv`: one lemma per kind of step, each of which writes the slot on top or
  the one above it.
* `CallsNestProved`: SpifConf implements ConfProtocol. A lemma per kind of step maps
  it to a step of the protocol; the only invariant needed beyond the type is that
  frame 0 is the null context's. It assumes that no empty command-line line is
  handed over: for one, conf.c ends a context by an uninitialized `id`.
* `LiveObjectsAreOpen` and `CallsAreLive` (ConfClient), the two properties of
  `conf_client`. They assume `Nesting`: END returns the state BEGIN was given; no empty
  command-line line; and files name registered contexts only, since a begin with an
  unknown name opens the null context, whose END returns NULL and loses the state
  below. The invariant `ClientInv` adds what makes END right: each open object
  remembers the state of the frame below its own.
* `TopStaysInArray` (ConfStack): while twice the highest index fits the counter; the
  invariant is that count and capacity agree and the index is below them.
* `TablesAnswerAlways` (ConfTables). `TablesInv` relates the tables to the history. The
  registrations of "null" before any other context replaced context 0, and the rest
  follow it in order (`LeadingNulls`), until "null" comes late, when context 0 loses its
  name for good; the functions are the history; the variables are sorted, each there
  once with what was put last. That a put finds its place, and keeps the order whether
  it inserts, replaces or deletes, is most of the proof.
* `DirectoryComesBackAlways` (ConfFiles), for any disk. One call is the whole proof, as
  what it reports depends on nothing but the directory before it. What the search
  found ends with the name the client gave; opening that name again from the folder of
  the file finds the same file just when the name has one part, and otherwise a path
  that is longer than the one found, which is why the exceptions are exact.
* `VersionsAlwaysOrdered` (Version), for any versions whose runs of one class and rank
  are the same text, which is what a rank is. Two versions part at one place, the
  least where they differ, and the answer depends on what they have there: an end
  stands between the early runs and the late ones. If the order of three versions goes
  round, they all part at one place; one of them ends there, between an early run of
  another and a late one of lower rank, and that is a fork.
* `UrlsComeBack` (UrlText), for texts of any length, and every answer of the lookup but the
  one that leaves the port uninitialized. Parsing gives parts that are `WellParted`: none
  has a mark that would have ended it, as `:`, `@` or `/` in a user. Unparsing lays such
  parts one behind the other (`Read`). The places where parsing cuts a text are unique
  (`Cuts`), so those at which the parts were put are the ones it finds. There are two
  exceptions, a user read as a protocol (`TakenForProto`) and a path read as a host
  (`TakenForHost`): they are shown to come back as something else, so `Ambiguous` is exact.
* `MemTypeCorrect`, `TrackedStayRecorded`, `RecordsStayLive` (SpifMem). The invariants
  are that tracked blocks are live and recorded, and that without a gap the level
  is high, records are one per address, live, and cover the heap. A lemma each
  says what adding, changing and removing a record does to the others; removal
  rests on what `RemoveAt` does to each element.
* `TLSTypeCorrect`, `StorageStaysOwn`, `BlocksStayHeld`, `ListedStayExisting`,
  `SureHandlesKeepNaming` (ThreadTLS), all five properties of its run. The
  inductive invariant `ValuesInv` says that a value belongs to an existing key and
  to the thread that obtained it, that only one thread has a value for a key (or
  deleting the key would strand the others'), and that no block has two keys; the
  keys of the list differ, so removing one leaves none that is deleted; `SureInv`
  adds that the keys below every freed one stay in place.

* `LinksStayRight` (ListImpls): `Linked`, which says that while the list is not
  crooked each node's neighbours name it and the ends are the head and the tail. It
  holds for every number of nodes, through the calls on which the classes part as
  well. The invariant `ShapeInv` adds that links are typed. Reversing, copying and
  removing from a map do leave links wrong (see below), hence `crooked`, which is
  set by these calls and cleared by a new list. A lemma each treats a node put at
  the front, at the back and in between, and one taken out; the other calls are
  built of these.
* `ContentsAgree`, `AlwaysSorted`, `ReadingsAgree` and `ListTypes` (ListImpls), the other
  properties of `list_classes`, for any number of nodes, objects and indexes, from
  `ListInvHolds`. `ListInv` has two halves. While no class has parted (`Agreed`), one
  sequence is in the array, in the linked_list and in the dlinked_list, ascending in a
  vector and a map, with one pair for a key in a map. For the dlinked_list that
  is `DlState`: its allocated nodes are a row, without repetition, from head by next,
  which hold the sequence in order; and back by prev with the tail among them, but
  for a map, whose removal forgets these links. That the tail is the last node is
  no part of it: a reversed or copied list has another one, and the calls that rely on
  it are shown to part then, by a wrong link or by undefined behaviour. Once classes have
  parted (`PartedWell`), the others still agree and each that parted shows it. The
  walks from the head, which are recursive functions, are proved to meet the row, by the
  first node at which they would leave it; every handler links in, takes out or
  turns round (ListChainProofs); `insert_at` is a case each for the index in front
  of, at, behind and within the list. For `ReadingsAgree` the binary search of array.c
  finds what the walk finds: each step halves the range and loses no position with the
  key, so of the ranges where the two would differ there is no shortest one.

* `SocketTypes`, `DescriptorsHaveOneOwner`, `FlagsTellTheTruth`, `ListenersAreBound` and
  `OnlySendAndAcceptLose` (Socket), the properties of sockets in `client_parts`, for any
  number of objects and descriptors. `SockInv` adds to them that a descriptor which is
  open and not lost is some object's, so the number the kernel hands out next is
  nobody's; that two descriptors name one description only after dup(2); that an
  object without a remote URL is bound where its URL says, or was refused, before it
  listens; and that an object without a descriptor has no flag set which would be
  wrong of the next. The last theorem is an action property and follows from the
  second: what a close or a failed open gives up was its object's alone.

* `TextTypes`, `TextsStaySame` and `TextReadings` (TextImpls): the type invariant,
  `SameText` and `TextReadsAgree`, for texts, slack, indexes and counts of any size, any characters
  and any increment of the readers. The invariant `TextInv` says more than `SameText`: a
  class that has not parted has the text at the front of its bytes, within the size it
  keeps, which is no more than the bytes it has, and for a string its NUL there
  as well; one that has parted is not right. Each call of str.c and mbuff.c has a
  lemma that says when it keeps this and when the text, the NUL or an access goes wrong:
  so the conditions for parting in `TextImpls`, listed
  below as deviations, are exact for every length, not only for the three characters of the run. A
  string without a NUL in its bytes is shown not to be right by the length of what the C library
  would read. The searches follow, as a least or a greatest position of the bytes is one of the text.

The theorems assume the named ASSUMEs of the modules, which every run evaluates, and
FileMode, Nesting and the limit of `TopStaysInArray` where they say so. The parts of
`client_parts` have a specification each (`SockSpec`, `TextsSpec`, `TablesSpec`, `FilesSpec`,
`VersionSpec`, `UrlSpec`), of which the theorems speak; its run takes their steps as they are. Its
type invariant, `TypesOK`, joins those of the sockets and the texts, which are proved
apart (`SocketTypes`, `TextTypes`), as MCClients reaches RECURSIVE operators.

Left to TLC, and why:

* `Terminates`, which is liveness under fairness;
* `HandledAsWritten`, `LeftAsWritten`, `EndsInTime`: no theorem. They compare what the passes
  of `spifopt_parse()` add up to with the line it was given;
* `QuotedWordsComeBack`, `ScansStopAtTheEnd`, `WordsCounted` and `ExpandsAsMeant`: what
  recursive algorithms compute of every text, an induction over data, in modules that
  declare RECURSIVE operators.

## Where the documentation and the code part

Four have a run and a finding in `PROJECT.json`: a command-line line leaves the
file stack at index 255 (`conf_v_argv`); a repeated %preproc may pop the file
before its end (`conf_v_preproc`); END's NULL replaces the enclosing context's
state (`conf_v_nested`); freeing one handle of thread-local storage moves the
others (`tls_v_placeholder`). Others were met while modelling and are not run:

* an unknown context is not skipped to its `end` (conf.c:1105): its lines go to the null
  context's handler one by one, and its END gives the enclosing context NULL;
* BEGIN gets the enclosing context's state, not NULL (conf.c:1109), and after END the
  parser is back in the enclosing context, not in null (conf.c:1143);
* a parse may start in a context left open by an earlier file (conf.c:1082);
* `end` clears the skip flag, which is to skip the rest of the file (libast.h:1508).

Two more things of the file stack are no disagreement with a document, and the properties
have them as exceptions: a %preproc whose fdopen() fails leaves its descriptor, its
temporary file and that file's name in memory (conf.c:901-912; so does a failed fchmod() in
file.c:81), which `StreamsOwned` counts as `stray`; and as each command-line line takes one
from the index, some 250 of them bring it round to the slots of files that were closed
long ago, which the next line that skips, includes or preprocesses would use:
`NoUseAfterClose` speaks of the time before.

What follows are the places where a class leaves what its interface promises, or a
function what its name says. The models have them as the code does; the properties
state what holds around them, and, for the lists and texts, that each is real.

Lists, beside what `ListSpec` says:

* inserting into an unsorted list whose head equals the object goes behind the head; a
  dlinked_list does so wrong for the only element or over a stale tail;
* `insert_at` with an index of -1: the array writes in front of its memory, the linked_list inserts
  behind the head, the dlinked_list refuses. A far index into an empty linked list is
  put first, without padding. In a dlinked_list of n, index n is refused, n-1 appends,
  and one in its upper half inserts one place too far;
* reversing an empty linked list reads an uninitialized pointer; reversing a
  dlinked_list leaves its tail; copying a dlinked_list leaves its links back, an empty
  linked_list or an array with NULL elements stops the process;
* removing from a dlinked map updates neither the next node's link nor the tail.

Text:

* appending or prepending to a str without text allocates a byte too few;
  `prepend_char` needs two spare bytes; the copy keeps a size its bytes do not have;
  copying, clearing or changing the case of one without a buffer uses NULL;
* a negative count of a splice adds the index (str.c:641); `mbuff_splice` copies a byte
  too many; trimming an all-blank text keeps one blank, and an empty one is read in
  front;
* readers: `init_from_fp` works for lines shorter than its increment; `init_from_fd`
  goes on in the old buffer after a REALLOC, counts EINTR as -1, and never ends if errno
  was EINTR before the call; those of mbuff assume a file at its start and use an
  uninitialized pointer for one that can seek; `init_from_fd` of mbuff counts an
  interrupted read as -1 bytes too (mbuff.c:270), leaves a hole of unwritten bytes and,
  when nothing else comes, a length and a size of -1;
* comparing compares up to the shorter length; `index` and `rindex` of mbuff read outside of
  its bytes for a byte that is not in them (mbuff.c:491, 565): the first behind them, or
  through the NULL of an empty one, unless there are bytes to spare, the second in front.

Options, words, URLs, versions:

* an unknown option behind an abstract one becomes its value; a missing value of a
  letter is tried again until the count of bad options ends the program; a boolean
  letter is TRUE whatever value it takes, `-b 0` too; a list joined to its letter, `-lx`,
  is the word `-lx` and what follows, and where options are removed that word is gone
  before it is read: strdup(NULL) stops the program, or, with the tracking strdup(), makes
  the list look empty (options.c:495, 562);
* a quoted token is trimmed, an empty one is NULL; `split` loses the character
  behind a stray quote of the other kind; `get_word` has an empty word after a
  trailing blank, `num_words` ignores escapes; `get_pword` does not take a quoted text
  as one word (strings.c:526 says it does); a trailing escape with a separator given
  is read past (tok.c:328);
* a URL whose protocol getprotobyname knows takes its port from an uninitialized
  pointer; in `h?a/b` the host is `h?a`; a copy parses the text again;
* where letters meet digits the comparison of versions uses what its buffers held
  before (strings.c:805): it is not an order on the triples `VersionsOrdered` names.

Parser:

* registering "null" late renames another context; a grown table of functions has
  unset names; `spifconf_vars` outlives `spifconf_free_subsystem()`;
* a value of `$VAR` goes to the front of the buffer (conf.c:669), one that is unset
  leaves a byte of junk, and the closing brace stays; `%` not before a function acts as
  an escape; `%f )` takes what is behind it as its parameter; an open escape, brace,
  call or backquote is read past the end; an escaped pair of bytes at the limit fails
  the last assertion. Single quotes toggle within double ones and do not stop `%`;
* a name with a directory is looked for below the found file's directory again; a file
  found as `/f` is not opened from another directory, as chdir("") fails, though one found
  as `//f`, as the directory `/` makes it, is; the working directory stays changed when the
  open fails.

## Plan

What is left, in this order:

1. `recv` and the check of waiting input of the sockets, with a peer over a network.
2. Regular expressions and objects, as far as they keep state.
3. Proofs: that the passes of the option parser come to an end, by a measure.
4. Findings with a run of their own for the comparison of versions and for the
   expansion of `$VAR`, once what is promised is quoted from a document.

## Not modelled, and why

Pixmaps, modules (dlopen) and regular expressions are wrappers of external libraries;
the class tables, accessors, `show`, `type` and `comp` methods of objects and pairs are one
assignment or one comparison each; hashes are arithmetic with no property but their
dispersion; messages are output; temporary files are one call, its file part of
SpifConf; the AVL tree is not compiled; the waits, conditions and locks of
pthreads.c are empty stubs; snprintf replaces a function of libc.

In the parser, a handler that itself calls the parser is left out, and what exec,
random and dirscan answer is free; so are the memory of the name of a temporary file and
the file `Eterm-preproc-` of the current directory, to which the preprocessor writes when no
temporary file could be made. In the memory management, calls before
`spifmem_init()` and calls from several threads: the records have no lock, so
nothing holds of them there; and a list of records that cannot grow, whose failed
realloc() is written through and stops the process (mem.c:140-147). Of the sockets, `recv`, `check_io` and what the data is; the
retries of a send, which change no state. Of the texts, number conversions, `substr`,
`regexp_match`, `hex_dump` and comparisons without case, and reads that fail for another reason than a
signal: they end the text of a str as the end of the data does, and an mbuff goes on reading
for as long as they fail. Of the options, a
word `-` (the code reads past its NUL), options without a place for a value, and the
text of the help, and a help handler of the client's that returns: the loop may then go
round for ever on a missing value. Of the URLs, the setters. Of the versions, leading zeros, numbers
beyond 31 bits and runs of 128 characters or more, which go past the end of the two buffers
(strings.c:709). A list changed while an iterator walks it.
Thread-local storage is modelled for clients that call one method at a time on one
object, with positive sizes: the methods take no lock, and no document says what a
size of 0, or a duplicated thread object, should do. Running, killing and joining
threads are thin wrappers of POSIX.
Liveness, ENABLED and what the RECURSIVE operators compute cannot be proved with the provers
used and stay with TLC. Where a recursive function or an operator over sequences is
proved about (the walks of the lists, the binary search), the induction is on the
least counterexample.
