----------------------------- MODULE HostStrings -----------------------------
(***************************************************************************)
(* The programs that use the string pools, in the order App.Main runs      *)
(* them: the unit tests (UnitTests.cs), the reading of the source, the     *)
(* assembler (Assembler.cs: Assemble), the start of the VM (VM.Reset) and  *)
(* the display (VMVis.cs).  Each takes a pool nobody uses, makes it the    *)
(* default, and drains it when done.                                       *)
(*                                                                         *)
(* A source line is one text.  Its tokens are that text, and the name in   *)
(* a function label.  Names of functions are what the model follows; of    *)
(* an instruction it knows only whether it assembles.  Blocks that lists   *)
(* take: the source's and one for each list of tokens.                     *)
(***************************************************************************)
EXTENDS StringPool

CONSTANTS
  Labels, NameIn,      \* function labels, and the name in each
  MainName,            \* "@main"
  Instructions, Wrong, \* lines that assemble, and that do not
  Notice,              \* any text that is only printed
  Sources, TestSources \* of App.Main and of the unit tests

ASSUME SourceAssumption ==
  /\ Labels \cup Instructions \cup Wrong \cup {MainName, Notice} \subseteq Texts \ {Empty}
  /\ NameIn \in [Labels -> Texts \ {Empty}]
  /\ Labels \cap (Instructions \cup Wrong) = {} /\ Instructions \cap Wrong = {}
  /\ \A s \in Sources : s \in Seq(Labels \cup Instructions \cup Wrong \cup {Empty})
  /\ \A s \in TestSources : s \in Seq(Instructions) \ {<<>>}
  /\ LastBlock >= 4   \* room for an argument of main

VARIABLES
  pools,
  defaultPool,   \* String::defaultPool
  step,          \* what the program does next, see Steps
  flags,         \* debugMode, visMode
  appPool,       \* App.Main: tempPool
  source, lines, \* the source's lines: their texts, the strings that hold them
  caller,        \* of Assemble
  saved, temp,   \* Assemble: savedPool, tempPool
  lineNum,       \* Assemble
  functions,     \* Assembler.Functions
  hasError,      \* Assembler.HasError
  display        \* VMVis: _displayPool

app   == <<flags, appPool>>
input == <<source, lines, caller>>
asm   == <<saved, temp, lineNum, functions, hasError>>
vars  == <<pools, defaultPool, step, app, input, asm, display>>

Steps == {"start", "tests", "read", "enter", "collect", "build", "finish", "leave",
          "assembled", "display", "frame", "run", "done", "exhausted"}

\* text is what the name was when the function was added.
Function(ref, t) == [name |-> ref, text |-> t, built |-> FALSE, code |-> FALSE]

-----------------------------------------------------------------------------
\* Strings with the texts ts are made in pool p, one after the other.
InternAll(ps, p, ts) ==
  LET after[n \in 0 .. Len(ts)] ==
        IF n = 0 THEN ps
        ELSE LET before == after[n - 1]
             IN  IF before = Exhausted THEN before ELSE Intern(before, p, ts[n])
  IN  after[Len(ts)]

\* GetTokens, of one line after the other: the tokens are strings of the
\* default pool, their list is in pool 0.  A blank line has none.
Tokenize(ps, p, ts) ==
  LET after[n \in 0 .. Len(ts)] ==
        IF n = 0 THEN ps
        ELSE LET before == after[n - 1]
                 tokens == Intern(before, p, ts[n])
             IN  IF before = Exhausted \/ ts[n] = Empty THEN before
                 ELSE IF tokens = Exhausted THEN tokens ELSE AllocList(tokens)
  IN  after[Len(ts)]

\* An action goes on with the pools it leaves, or nowhere.
GoOn(ps, next) ==
  IF ps = Exhausted THEN step' = "exhausted" /\ UNCHANGED pools
  ELSE step' = next /\ pools' = ps

\* The line as the assembler reads it, through its string.
Line(i) == Text(pools, lines[i])

NameText(f) == Text(pools, f.name)

FindFunctionIndex(t) == {i \in DOMAIN functions : NameText(functions[i]) = t}
-----------------------------------------------------------------------------
(* App.Main and the unit tests.                                            *)

\* main interns the arguments in pool 0.
Init ==
  /\ pools = Intern([p \in PoolNums |-> NoPool], 0, Notice)
  /\ defaultPool = 0 /\ step = "start"
  /\ flags \in [debug : BOOLEAN, vis : BOOLEAN]
  /\ appPool = 0 /\ source = <<>> /\ lines = <<>> /\ caller = "app"
  /\ saved = 0 /\ temp = 0 /\ lineNum = 1 /\ functions = <<>> /\ hasError = FALSE
  /\ display = 0

\* The first print creates the pool that findUnusedPool found.
Start ==
  /\ step = "start"
  /\ appPool' = FindUnusedPool(pools)
  /\ defaultPool' = appPool'
  /\ GoOn(Intern(pools, appPool', Notice), IF flags.debug THEN "tests" ELSE "read")
  /\ UNCHANGED <<flags, input, asm, display>>

\* Strings for the lines of the source s, in the default pool.
Load(s, who) ==
  LET loaded == InternAll(pools, defaultPool, s)
      listed == IF loaded = Exhausted THEN Exhausted ELSE AllocList(loaded)
  IN  /\ source' = s /\ caller' = who
      /\ GoOn(listed, "enter")
      /\ lines' = IF listed = Exhausted THEN <<>>
                  ELSE [i \in DOMAIN s |-> RefOf(listed, defaultPool, s[i])]

\* TestAssembler: one of its sources, with an Assembler of its own.
Test ==
  /\ step = "tests"
  /\ \E s \in TestSources : Load(s, "tests")
  /\ UNCHANGED <<defaultPool, app, asm, display>>

TestsPass ==
  /\ step = "tests" /\ step' = "read"
  /\ UNCHANGED <<pools, defaultPool, app, input, asm, display>>

\* ReadFile.  A file without lines ends the program.
Read ==
  /\ step = "read"
  /\ \/ \E s \in Sources \ {<<>>} : Load(s, "app") /\ UNCHANGED defaultPool
     \/ /\ <<>> \in Sources /\ step' = "done"
        /\ UNCHANGED <<pools, defaultPool, input>>
  /\ UNCHANGED <<app, asm, display>>

-----------------------------------------------------------------------------
(* Assembler.Assemble, of an Assembler just made.                          *)

\* App.Main wants the permanent strings in pool 0, the tests do not care.
Assemble ==
  /\ step = "enter" /\ step' = "collect"
  /\ saved' = IF caller = "app" THEN 0 ELSE defaultPool
  /\ temp' = FindUnusedPool(pools)
  /\ defaultPool' = IF temp' = 0 THEN saved' ELSE temp'
  /\ functions' = <<>> /\ hasError' = FALSE /\ lineNum' = 1
  /\ UNCHANGED <<pools, app, input, display>>

\* AddFunction, once the label has been taken apart.
AddFunction(t, ps, next) ==
  IF FindFunctionIndex(t) # {}
  THEN GoOn(Intern(ps, defaultPool, Notice), "leave") /\ UNCHANGED functions
  ELSE /\ GoOn(ps, next)
       /\ functions' = Append(functions, Function(RefOf(ps, defaultPool, t), t))

\* The skim over the lines that collects the function labels.  A name
\* already there ends Assemble at once, HasError left as it is.
Collect ==
  /\ step = "collect" /\ lineNum <= Len(lines)
  /\ LET tokens == Tokenize(pools, defaultPool, <<Line(lineNum)>>)
     IN  IF Line(lineNum) \notin Labels
         THEN GoOn(tokens, "collect") /\ UNCHANGED functions
         ELSE LET t     == NameIn[Line(lineNum)]
                  named == IF tokens = Exhausted THEN Exhausted
                           ELSE Intern(tokens, defaultPool, t)
              IN  IF named = Exhausted THEN GoOn(named, "collect") /\ UNCHANGED functions
                  ELSE AddFunction(t, named, "collect")
  /\ lineNum' = lineNum + 1
  /\ UNCHANGED <<defaultPool, app, input, saved, temp, hasError, display>>

SawMain == \E i \in DOMAIN functions : functions[i].text = MainName

Collected ==
  /\ step = "collect" /\ lineNum > Len(lines)
  /\ IF SawMain THEN step' = "build" /\ UNCHANGED <<pools, functions>>
     ELSE LET named == Intern(pools, defaultPool, MainName)
          IN  IF named = Exhausted THEN GoOn(named, "build") /\ UNCHANGED functions
              ELSE AddFunction(MainName, named, "build")
  /\ lineNum' = 1
  /\ UNCHANGED <<defaultPool, app, input, saved, temp, hasError, display>>

SkipBlank ==
  /\ step = "build" /\ lineNum <= Len(lines) /\ Line(lineNum) = Empty
  /\ lineNum' = lineNum + 1
  /\ UNCHANGED <<pools, defaultPool, step, app, input, saved, temp, functions, hasError, display>>

\* AssembleFunction skips the label it starts at.  It moves startLine on
\* when it does, so that it takes a label on the very next line for the
\* function's own as well.
FirstLine(start) ==
  Min({i \in start .. Len(lines) : Line(i) \notin Labels} \cup {Len(lines) + 1})

\* Mutant: a function reaches to the end of the source.
EndLine_Last(first) == Len(lines) + 1

\* It stops at the next function label.
EndLine(first) ==
  Min({i \in first .. Len(lines) : Line(i) \in Labels} \cup {Len(lines) + 1})

\* AssembleFunction, in two passes over the function's lines, and the
\* storing of the function under its name.
BuildFunction ==
  /\ step = "build" /\ lineNum <= Len(lines) /\ Line(lineNum) # Empty
  /\ LET labelled == Line(lineNum) \in Labels
         t        == IF labelled THEN NameIn[Line(lineNum)] ELSE MainName
         first    == FirstLine(lineNum)
         end      == EndLine(first)
         body     == [i \in 1 .. end - first |-> Line(first + i - 1)]
         wrong    == \E i \in DOMAIN body : body[i] \in Wrong
         code     == \E i \in DOMAIN body : body[i] \in Instructions
         head     == Tokenize(pools, defaultPool, <<Line(lineNum)>>)
         named    == IF head = Exhausted THEN head ELSE Intern(head, defaultPool, t)
         scanned  == Tokenize(named, defaultPool, body \o body)
         built    == IF wrong /\ scanned # Exhausted THEN Intern(scanned, defaultPool, Notice)
                     ELSE scanned
         slot     == Min(FindFunctionIndex(t))
     IN  /\ GoOn(built, IF wrong THEN "finish" ELSE "build")
         /\ lineNum' = end
         /\ hasError' = wrong
         /\ functions' = IF wrong \/ built = Exhausted THEN functions
                         ELSE [functions EXCEPT ![slot] =
                                 [name  |-> RefOf(built, defaultPool, t), text |-> t,
                                  built |-> TRUE, code |-> code]]
  /\ UNCHANGED <<defaultPool, app, input, saved, temp, display>>

Built ==
  /\ step = "build" /\ lineNum > Len(lines) /\ step' = "finish"
  /\ UNCHANGED <<pools, defaultPool, app, input, asm, display>>

\* Mutant: the temporary pool is drained first.
Finish_DrainsFirst ==
  /\ step = "finish"
  /\ IF temp = 0 THEN step' = "leave" /\ UNCHANGED <<pools, defaultPool, functions>>
     ELSE LET drained == ClearPool(pools, temp)
              texts   == [i \in DOMAIN functions |-> Text(drained, functions[i].name)]
              named   == InternAll(drained, saved, texts)
          IN  /\ defaultPool' = saved
              /\ GoOn(named, "leave")
              /\ functions' = IF named = Exhausted THEN functions
                              ELSE [i \in DOMAIN functions |->
                                      [functions[i] EXCEPT !.name = RefOf(named, saved, texts[i])]]
  /\ UNCHANGED <<app, input, saved, temp, lineNum, hasError, display>>

\* The names move to the pool that was the default; then the temporary pool
\* is drained.
Finish ==
  /\ step = "finish"
  /\ IF temp = 0 THEN step' = "leave" /\ UNCHANGED <<pools, defaultPool, functions>>
     ELSE LET texts == [i \in DOMAIN functions |-> NameText(functions[i])]
              named == InternAll(pools, saved, texts)
          IN  /\ defaultPool' = saved
              /\ GoOn(IF named = Exhausted THEN named ELSE ClearPool(named, temp), "leave")
              /\ functions' = IF named = Exhausted THEN functions
                              ELSE [i \in DOMAIN functions |->
                                      [functions[i] EXCEPT !.name = RefOf(named, saved, texts[i])]]
  /\ UNCHANGED <<app, input, saved, temp, lineNum, hasError, display>>

-----------------------------------------------------------------------------
(* Back in the caller.                                                     *)

\* A test looks at the @main it finds; App.Main gives up on an error.
Leave ==
  /\ step = "leave"
  /\ IF caller = "tests"
     THEN GoOn(Intern(pools, defaultPool, MainName), "tests") /\ UNCHANGED defaultPool
     ELSE /\ defaultPool' = appPool
          /\ GoOn(IF hasError \/ flags.debug THEN Intern(pools, appPool, Notice) ELSE pools,
                  IF hasError THEN "done" ELSE "assembled")
  /\ UNCHANGED <<app, input, asm, display>>

\* The source and the listing go, and VM.Reset looks for @main.
Reset ==
  /\ step = "assembled"
  /\ LET drained == ClearPool(pools, defaultPool)
         ready   == Intern(drained, 0, MainName)
         main    == {i \in DOMAIN functions : Text(drained, functions[i].name) = MainName}
     IN  GoOn(ready, IF main = {} \/ ~functions[Max(main)].code THEN "done"
                     ELSE IF flags.vis THEN "display" ELSE "run")
  /\ defaultPool' = 0
  /\ UNCHANGED <<app, input, asm, display>>

-----------------------------------------------------------------------------
(* VMVis.                                                                  *)

NewDisplay ==
  /\ step = "display" /\ step' = "frame"
  /\ display' = FindUnusedPool(pools)
  /\ UNCHANGED <<pools, defaultPool, app, input, asm>>

\* UpdateDisplay.  _savedPool is the pool at construction, 0.
Frame ==
  /\ step = "frame"
  /\ LET drawn == InternAll(pools, IF display = 0 THEN defaultPool ELSE display,
                            <<Notice>> \o [i \in DOMAIN functions |-> NameText(functions[i])])
     IN  GoOn(IF drawn = Exhausted \/ display = 0 THEN drawn ELSE ClearPool(drawn, display),
              "run")
  /\ defaultPool' = 0
  /\ UNCHANGED <<app, input, asm, display>>

\* The VM runs, to its end or for one instruction.  It calls functions by
\* name and may report an error.
Run ==
  /\ step = "run"
  /\ \/ flags.vis /\ GoOn(Intern(pools, defaultPool, Notice), "frame")
     \/ GoOn(Intern(pools, defaultPool, Notice), "done")
  /\ UNCHANGED <<defaultPool, app, input, asm, display>>

\* The program has ended, or the model does.
Ended == step \in {"done", "exhausted"} /\ UNCHANGED vars

Next == \/ Start \/ Test \/ TestsPass \/ Read
        \/ Assemble \/ Collect \/ Collected \/ SkipBlank \/ BuildFunction \/ Built \/ Finish
        \/ Leave \/ Reset \/ NewDisplay \/ Frame \/ Run \/ Ended

Spec == Init /\ [][Next]_vars
-----------------------------------------------------------------------------
(* Properties.                                                             *)

TypeOK ==
  /\ pools \in [PoolNums -> Pool]
  /\ {defaultPool, appPool, saved, temp, display} \subseteq PoolNums
  /\ step \in Steps /\ caller \in {"app", "tests"}
  /\ flags \in [debug : BOOLEAN, vis : BOOLEAN] /\ hasError \in BOOLEAN
  /\ source \in Seq(Texts) /\ lines \in Seq(Refs) /\ lineNum \in Nat \ {0}
  /\ functions \in Seq([name : Refs, text : Texts, built : BOOLEAN, code : BOOLEAN])

StringsIn(p) == {i \in Indices : pools[p].blocks[i].kind = "string"}

\* Two strings of one pool with the same text are one string, in whatever
\* order pools were filled, drained and filled again.  (String::operator==
\* asks whether it may rely on it: "any identical strings ought to be the
\* exact same ref?")
OneRefPerString ==
  \A p \in PoolNums : \A i, j \in StringsIn(p) :
    pools[p].blocks[i].text = pools[p].blocks[j].text => i = j

\* A hash table never leads to a drained block: whatever a bin's chain links
\* is an entry, for a string of that bin; and each string of the pool is on
\* a chain (StringPool::clearPool resets the table first).
ChainsLive ==
  \A p \in PoolNums :
    LET entries(b) == Chain(pools[p], b)
        block(i)   == pools[p].blocks[i]
    IN  /\ \A b \in Bins : \A i \in entries(b) :
             /\ block(i).kind = "entry"
             /\ block(i).ss \in StringsIn(p) /\ Bin[block(block(i).ss).text] = b
        /\ \A s \in StringsIn(p) :
             \E i \in entries(Bin[block(s).text]) : block(i).ss = s

\* The pools are in order, whoever fills and drains them: a string is stored
\* once, and a hash table and the blocks it leads to agree.
PoolsSound == TypeOK /\ OneRefPerString /\ ChainsLive

\* The source's lines while they are assembled, the functions' names from then on.
StringsKept ==
  /\ step \in {"enter", "collect", "build"} => \A i \in DOMAIN lines : Line(i) = source[i]
  /\ step \in {"collect", "build", "finish", "leave", "assembled", "display", "frame", "run"}
       => \A i \in DOMAIN functions : NameText(functions[i]) = functions[i].text

\* While the VM runs, strings are made in pool 0 and no other pool holds a block.
PoolsDrained ==
  step \in {"display", "frame", "run"} =>
    defaultPool = 0 /\ \A p \in 1 .. LastPool : InUse(pools, p) = {}

\* Temporary pools are drained by the one who took them, before the program
\* runs, and never while someone still reads their strings: the assembler
\* its lines, the VM and the display the functions' names, with a pool of the
\* display's own drained in every frame (Assembler.Assemble, "ensure all
\* function names are interned"; MEMORY_SYSTEMS.md, temporary pool strategy).
PoolsHandedOver == StringsKept /\ PoolsDrained
=============================================================================
