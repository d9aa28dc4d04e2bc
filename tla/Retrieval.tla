------------------------------- MODULE Retrieval -------------------------------
(***************************************************************************)
(* The retrieval metrics of lib/eb_metrics: the files that a shell command  *)
(* has read, the paths of a trace against those that a task requires, and   *)
(* the means by which arms are compared.  An inquiry is an input to one of   *)
(* the three; a share is kept as its numerator.                             *)
(*                                                                         *)
(* A path is the sequence of its components without the container's prefix. *)
(* A command is given by what its units mean, from which its tokens are     *)
(* made: the lexer finds these and nothing else.                            *)
(***************************************************************************)
EXTENDS Integers, Sequences, FiniteSets, FiniteSetsExt, SequencesExt

CONSTANTS
    Paths,         \* that a trace or a task may name
    CodeDirs,      \* first components that are no repository
    MaxRead,       \* paths in a trace
    MaxRequired,   \* paths that a task requires
    MaxUnits,      \* units of a command
    Modes,         \* arms of a study
    StudyTasks,
    MaxRepeats     \* runs of a task in an arm

ASSUME RetrievalAssumption ==
    /\ Paths \subseteq Seq(STRING) \ {<<>>}
    /\ MaxRead \in Nat \ {0} /\ MaxRequired \in Nat \ {0}
    /\ IsFiniteSet(StudyTasks) /\ MaxRepeats \in Nat

VARIABLE inquiry

retrievalVars == <<inquiry>>

-----------------------------------------------------------------------------
(* Commands: an option that stands alone, one with a value, one that gives   *)
(* the pattern, the end of the options, and operands.  A value may look like *)
(* a file or an option, and an operand may be no concrete path.             *)

UnitOf(as, texts) == [as : {as}, text : texts]

Units == UnitOf("switch", {"-l"}) \cup UnitOf("value", {"file", "-l", "--"})
           \cup UnitOf("pattern", {"file", "-l", "--"}) \cup UnitOf("end", {"--"})
           \cup UnitOf("operand", {"file", "glob", "-l"})

\* What can be meant: after the end of the options only operands, and only there such
\* that look like an option; other programs' options have no values.
Meant(program, units) ==
    \A i \in DOMAIN units :
        LET ended == \E j \in 1..(i - 1) : units[j].as = "end" IN
        /\ ended => units[i].as = "operand"
        /\ ~ended => ~(units[i].as = "operand" /\ units[i].text = "-l")
        /\ program # "grep" => units[i].as \in {"switch", "end", "operand"}

Wrappings == {<<>>, <<"assign">>, <<"wrapper", "-l">>, <<"keyword", "wrapper">>}

Lines == [of : {"line"}, prefix : Wrappings, program : {"grep", "cat", "make"},
          units : SeqOf(Units, MaxUnits), tail : {"none", "dup", "heredoc", "output"}]

\* What stands before a program matters to what is found of the program only.
WellFormed(line) ==
    Meant(line.program, line.units) /\ (line.prefix # <<>> => Len(line.units) <= 1)

Word(text, unit) == [op |-> FALSE, text |-> text, unit |-> unit]
Op(text) == [op |-> TRUE, text |-> text, unit |-> 0]

\* The tokens of a line; what they stand for is kept beside them.
Tokens(line) ==
    LET TokensOf(i) ==
            LET u == line.units[i] IN
            CASE u.as = "value" -> <<Word("-A", 0), Word(u.text, 0)>>
              [] u.as = "pattern" -> <<Word("-e", 0), Word(u.text, 0)>>
              [] OTHER -> <<Word(u.text, i)>>
        tail == Len(line.units) + 1
    IN  [i \in DOMAIN line.prefix |-> Word(line.prefix[i], 0)]
          \o <<Word(line.program, 0)>>
          \o FlattenSeq([i \in DOMAIN line.units |-> TokensOf(i)])
          \o (CASE line.tail = "none" -> <<>>
                [] line.tail = "heredoc" -> <<Op("<<"), Word("file", tail)>>
                [] line.tail = "dup" -> <<Word("2", tail), Op(">&"), Word("1", tail)>>
                [] line.tail = "output" -> <<Word("2", tail), Op(">"), Word("file", tail)>>)

IsFlag(word) == word.text \in {"-l", "-A", "-e", "--"}

\* _command_words: here-documents and descriptors are no arguments.
CommandWords(tokens) ==
    LET Take(a, t) ==
            IF t.op
            THEN [words |-> IF t.text # "<<" /\ a.words # <<>> /\ Last(a.words).text = "2"
                            THEN Front(a.words) ELSE a.words,
                  skip |-> t.text \in {"<<", ">&"}]
            ELSE [words |-> IF a.skip THEN a.words ELSE Append(a.words, t), skip |-> FALSE]
    IN  FoldLeft(Take, [words |-> <<>>, skip |-> FALSE], tokens).words

\* _strip_wrappers: assignments, keywords, and programs that run another with their flags.
StripWrappers(words) ==
    LET Wraps(i) == \/ words[i].text \in {"assign", "keyword", "wrapper"}
                    \/ IsFlag(words[i]) /\ i > 1 /\ words[i - 1].text = "wrapper"
        program == CHOOSE i \in DOMAIN words : ~Wraps(i) /\ \A j \in 1..(i - 1) : Wraps(j)
    IN  SubSeq(words, program, Len(words))

\* _names_a_concrete_path
Concrete(word) == word.text # "glob"

\* Mutant: the end of the options is one more option.
NeverEnds(word, ended) == FALSE

\* After "--" everything is an operand.
EndsOptions(word, ended) == ended \/ word.text = "--"

\* _read_command_args
ReadCommandArgs(program, args) ==
    LET Take(a, w) ==
            IF a.value THEN [a EXCEPT !.value = FALSE]
            ELSE IF ~a.ended /\ IsFlag(w)
            THEN [a EXCEPT !.ended = EndsOptions(w, @),
                           !.pattern = @ \/ (program = "grep" /\ w.text = "-e"),
                           !.value = program = "grep" /\ w.text \in {"-e", "-A"}]
            ELSE IF ~a.pattern THEN [a EXCEPT !.pattern = TRUE]
            ELSE IF Concrete(w) THEN [a EXCEPT !.files = Append(@, w.unit)] ELSE a
    IN  FoldLeft(Take, [files |-> <<>>, pattern |-> program # "grep", ended |-> FALSE,
                        value |-> FALSE], args).files

\* _program_read_files
BashReadFiles(line) ==
    LET words   == StripWrappers(CommandWords(Tokens(line)))
        program == Head(words).text
    IN  IF program \in {"grep", "cat"} THEN ReadCommandArgs(program, Tail(words)) ELSE <<>>

-----------------------------------------------------------------------------
(* Paths.                                                                   *)

Searches == [of : {"search"}, read : SeqOf(Paths, MaxRead),
             required : {r \in SeqOf(Paths, MaxRequired) : IsInjective(r)}]

EndsIn(p, q) == Len(q) <= Len(p) /\ SubSeq(p, Len(p) - Len(q) + 1, Len(p)) = q

\* normalize_path: a first component that may be a repository goes, if two are left.
NormalizePath(p) == IF Len(p) > 2 /\ p[1] \notin CodeDirs THEN Tail(p) ELSE p

\* Of what has the same key the first.
FirstSeen(s, keys) ==
    FoldLeft(LAMBDA a, i : IF \E j \in 1..(i - 1) : keys[j] = keys[i] THEN a
                           ELSE Append(a, s[i]),
             <<>>, [i \in DOMAIN s |-> i])

\* retrieved_files_from_trace
RetrievedFiles(read) == FirstSeen(read, [i \in DOMAIN read |-> NormalizePath(read[i])])

\* Mutant: a path that is not named as it is required is another one.
CanonicalByName(p, required) == p

\* The first of the required paths that a path ends in, instead of it.
Canonical(p, required) ==
    IF \E i \in DOMAIN required : EndsIn(p, required[i])
    THEN required[Min({i \in DOMAIN required : EndsIn(p, required[i])})] ELSE p

\* _align_retrieved_to_required
AlignRetrieved(read, required) ==
    LET aligned == [i \in DOMAIN RetrievedFiles(read) |->
                       Canonical(RetrievedFiles(read)[i], required)]
    IN  FirstSeen(aligned, aligned)

Relevant(required) == {NormalizePath(required[i]) : i \in DOMAIN required}

\* The positions of what counts as relevant among the first k.
HitsAt(list, relevant, k) ==
    {i \in DOMAIN list : i <= k /\ NormalizePath(list[i]) \in relevant}

\* recall_at_k, and file_level_recall at the end, times the relevant ones
Found(list, relevant, k) ==
    relevant \cap {NormalizePath(list[i]) : i \in {j \in DOMAIN list : j <= k}}

\* mean_average_precision, times the relevant ones and 60
PrecisionSum(list, relevant) ==
    MapThenSumSet(LAMBDA i : (60 * Cardinality(HitsAt(list, relevant, i))) \div i,
                  HitsAt(list, relevant, Len(list)))

\* compute_run_ir_scores: no score without paths, or without required ones.
HasSignal(search) == search.read # <<>> /\ search.required # <<>>

-----------------------------------------------------------------------------
(* Rollups: of a task in an arm, how often it was scored zero and one.      *)

Cells == {c \in [zeros : 0..MaxRepeats, ones : 0..MaxRepeats] : c.zeros + c.ones <= MaxRepeats}

Rollups == [of : {"rollup"}, cells : [Modes -> [StudyTasks -> Cells]]]

Repeats(c) == c.zeros + c.ones

Observed(cells, m) == {t \in StudyTasks : Repeats(cells[m][t]) > 0}

\* Mutant: each arm on the tasks it has.
OwnTasks(cells) == UNION {Observed(cells, m) : m \in Modes}

\* aggregate_retrieval: the tasks of every arm that has any.
TasksOfEveryArm(cells) ==
    LET arms == {m \in Modes : Observed(cells, m) # {}} IN
    {t \in StudyTasks : \A m \in arms : t \in Observed(cells, m)}

\* Mutant: every run counts once.
PooledMean(cells, m, tasks) ==
    [sum |-> MapThenSumSet(LAMBDA t : cells[m][t].ones, tasks),
     n |-> MapThenSumSet(LAMBDA t : Repeats(cells[m][t]), tasks)]

\* _combine: first the repeats of a task, then its tasks with equal weights; in twelfths.
MeanOf(cells, m, tasks) ==
    [sum |-> MapThenSumSet(LAMBDA t : (12 * cells[m][t].ones) \div Repeats(cells[m][t]),
                           tasks \cap Observed(cells, m)),
     n |-> 12 * Cardinality(tasks \cap Observed(cells, m))]

AtLeast(x, y) == x.sum * y.n >= y.sum * x.n

RetrievalInit == inquiry \in {l \in Lines : WellFormed(l)} \cup Searches \cup Rollups

-----------------------------------------------------------------------------
(* A command is credited with no file that it has not named as an operand,  *)
(* and with all that it has, in their order: neither the pattern nor a       *)
(* value, however it looks, and no file lost to one; the target of a         *)
(* redirection counts, as the code says of itself.  A pattern that follows   *)
(* the operands is not known when they are read: then one file is missed     *)
(* (_command_words, _read_command_args).                                    *)
CommandReadsAreOperands ==
    inquiry.of = "line" =>
        LET units    == inquiry.units
            operands == {i \in DOMAIN units : units[i].as = "operand"}
            patterns == {i \in DOMAIN units : units[i].as = "pattern"}
            pattern  == IF inquiry.program = "grep" /\ operands # {} /\ patterns = {}
                        THEN {Min(operands)} ELSE {}
            target   == IF inquiry.tail = "output" THEN {Len(units) + 1} ELSE {}
            files    == {i \in operands \ pattern : units[i].text # "glob"} \cup target
            reads    == BashReadFiles(inquiry)
        IN  /\ \A i, j \in DOMAIN reads : i < j => reads[i] < reads[j]
            /\ inquiry.program = "make" => reads = <<>>
            /\ inquiry.program # "make" /\ (inquiry.program = "cat" \/ operands # {})
                 => /\ Range(reads) \subseteq files
                    /\ (\A p \in patterns, o \in operands : p < o) => Range(reads) = files

(* No required file that was read is missed, in whatever directory or       *)
(* repository it was found, unless one required path ends in another;        *)
(* recall grows with the cutoff; and the average precision is full exactly   *)
(* when the relevant files came first, unless two paths pass for one         *)
(* (_align_retrieved_to_required, recall_at_k, mean_average_precision).      *)
RankScoresHold ==
    inquiry.of = "search" /\ HasSignal(inquiry) =>
        LET required == inquiry.required
            relevant == Relevant(required)
            list     == AlignRetrieved(inquiry.read, required)
            n        == Cardinality(relevant)
        IN  /\ (\A i, j \in DOMAIN required : i # j => ~EndsIn(required[i], required[j]))
               => \A i \in DOMAIN required, j \in DOMAIN inquiry.read :
                     EndsIn(inquiry.read[j], required[i])
                       => NormalizePath(required[i]) \in Found(list, relevant, Len(list))
            /\ \A k \in DOMAIN list :
                  Found(list, relevant, k - 1) \subseteq Found(list, relevant, k)
            /\ IsInjective([i \in DOMAIN list |-> NormalizePath(list[i])])
               => /\ PrecisionSum(list, relevant) <= 60 * n
                  /\ PrecisionSum(list, relevant) = 60 * n
                       <=> Cardinality(HitsAt(list, relevant, n)) = n

(* An arm that is at least as good as another on every task that all arms   *)
(* have is not reported as worse, however often which task was repeated and *)
(* whatever else an arm has (aggregate_retrieval).                          *)
BetterArmLeads ==
    inquiry.of = "rollup" =>
        LET cells == inquiry.cells
            tasks == TasksOfEveryArm(cells)
            arms  == {m \in Modes : Observed(cells, m) # {}}
            shared == {t \in StudyTasks : \A m \in arms : t \in Observed(cells, m)}
        IN  \A m, o \in arms :
               (\A t \in shared : cells[m][t].ones * Repeats(cells[o][t])
                                    >= cells[o][t].ones * Repeats(cells[m][t]))
               => AtLeast(MeanOf(cells, m, tasks), MeanOf(cells, o, tasks))

(* The retrieval metrics report what the arms' agents have read.            *)
RetrievalIsExact == CommandReadsAreOperands /\ RankScoresHold /\ BetterArmLeads
=============================================================================
