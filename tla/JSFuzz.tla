------------------------------- MODULE JSFuzz -------------------------------
(***************************************************************************)
(* The fuzzer around QuickJS: LLVMFuzzerInitialize, LLVMFuzzerTestOneInput *)
(* and JS::Run, and the tool to_bytecode that may write the bytecode file  *)
(* at any time.                                                            *)
(*                                                                         *)
(* A program stands for its bytecode.  A bytecode file is the sequence of  *)
(* the programs appended to it.  What a script does is arbitrary: it       *)
(* throws, runs out of memory or sets FuzzerOutput.                        *)
(***************************************************************************)
EXTENDS Integers, Sequences, SequencesExt

CONSTANTS
    Programs,     \* JavaScript programs that compile
    Bytes,        \* bound: the bytes of inputs
    MaxInput,     \* bound: length of an input
    Outputs,      \* bound: strings of UTF-16 code units a script stores in FuzzerOutput
    MaxArgs,      \* bound: arguments after the name of the program
    MaxWrites,    \* bound: runs of to_bytecode
    MaxRuns,      \* bound: inputs libFuzzer tries
    NoFile,       \* a file that does not exist
    Broken,       \* a JavaScript file that does not compile
    NotAString,   \* any JavaScript value that is not a string
    nullopt

ASSUME FuzzAssumption ==
    /\ Bytes \subseteq 0..255
    /\ Outputs \subseteq Seq(0..65535)
    /\ {MaxInput, MaxArgs, MaxWrites, MaxRuns} \subseteq Nat

\* A JSString; one with a character above 255 is wide, others may be.
Strings == {s \in [is_wide_char : BOOLEAN, chars : Outputs] :
                (\E k \in DOMAIN s.chars : s.chars[k] > 255) => s.is_wide_char}

VARIABLES
    bcFile,        \* the bytecode file, or NoFile
    writer,        \* to_bytecode: "idle", or the program it has compiled
    writes,
    pc,            \* what the fuzzer is doing
    argv, i,       \* LLVMFuzzerInitialize
    fileSize,      \* LoadFile between tellg and read, else -1
    haveCode,
    bytecode,      \* JS::bytecode: programs
    memoryLimit,   \* has SetMemoryLimit been called?
    runtimes,      \* number of runtimes that exist
    data, asString,
    FuzzerInput,   \* what the script sees
    program,       \* the program that runs
    FuzzerOutput,  \* what the script leaves behind
    ret,           \* the result of the last JS::Run
    runs

fileVars == <<bcFile, writer, writes>>
initVars == <<argv, i, fileSize, haveCode, bytecode, memoryLimit>>
runVars == <<runtimes, data, asString, FuzzerInput, program, FuzzerOutput, ret, runs>>
fzVars == <<fileVars, pc, initVars, runVars>>

\* An argument selects a JavaScript file by what is in it, the bytecode file,
\* or nothing (an option of libFuzzer).
Arguments == [kind : {"--js="}, file : Programs \cup {NoFile, Broken}]
             \cup [kind : {"--bc=", "other"}]

FzInit ==
    /\ bcFile = NoFile /\ writer = "idle" /\ writes = 0
    /\ pc = "args"
    /\ argv \in BoundedSeq(Arguments, MaxArgs) /\ i = 1
    /\ fileSize = -1 /\ haveCode = FALSE /\ bytecode = <<>> /\ memoryLimit = FALSE
    /\ runtimes = 0 /\ data = <<>> /\ asString = FALSE
    /\ FuzzerInput = <<>> /\ program = NoFile /\ FuzzerOutput = NotAString
    /\ ret = nullopt /\ runs = 0

-----------------------------------------------------------------------------
(* to_bytecode, another process.                                            *)

\* It compiles the program and opens the file for appending, which creates it.
ToBytecodeOpens(p) ==
    /\ writer = "idle" /\ writes < MaxWrites
    /\ writer' = p
    /\ bcFile' = IF bcFile = NoFile THEN <<>> ELSE bcFile
    /\ writes' = writes + 1
    /\ UNCHANGED <<pc, initVars, runVars>>

\* It writes the bytecode at the end of the file.
ToBytecodeWrites ==
    /\ writer # "idle"
    /\ bcFile' = Append(bcFile, writer)
    /\ writer' = "idle"
    /\ UNCHANGED <<writes, pc, initVars, runVars>>

-----------------------------------------------------------------------------
(* LLVMFuzzerInitialize.                                                    *)

Exit == pc' = "exit"

\* --js=: CompileJavascript, which ends the process if the file cannot be read
\* or compiled.
CompileJavascript ==
    /\ pc = "args" /\ i <= Len(argv) /\ argv[i].kind = "--js="
    /\ IF argv[i].file \in Programs
       THEN /\ bytecode' = <<argv[i].file>>
            /\ haveCode' = TRUE
            /\ i' = i + 1
            /\ UNCHANGED pc
       ELSE Exit /\ UNCHANGED <<i, haveCode, bytecode>>
    /\ UNCHANGED <<fileVars, argv, fileSize, memoryLimit, runVars>>

\* --bc=: LoadFile up to tellg.  Nothing catches what it throws.
LoadFile ==
    /\ pc = "args" /\ i <= Len(argv) /\ argv[i].kind = "--bc=" /\ fileSize = -1
    /\ IF bcFile \in {NoFile, <<>>}
       THEN pc' = "terminated" /\ UNCHANGED fileSize
       ELSE fileSize' = Len(bcFile) /\ UNCHANGED pc
    /\ UNCHANGED <<fileVars, argv, i, haveCode, bytecode, memoryLimit, runVars>>

\* The rest of LoadFile reads as many bytes as the file had.
LoadFileReads ==
    /\ pc = "args" /\ fileSize # -1
    /\ bytecode' = SubSeq(bcFile, 1, fileSize)
    /\ haveCode' = TRUE
    /\ fileSize' = -1
    /\ i' = i + 1
    /\ UNCHANGED <<fileVars, pc, argv, memoryLimit, runVars>>

OtherArgument ==
    /\ pc = "args" /\ i <= Len(argv) /\ argv[i].kind = "other"
    /\ i' = i + 1
    /\ UNCHANGED <<fileVars, pc, argv, fileSize, haveCode, bytecode, memoryLimit, runVars>>

ArgumentsDone ==
    /\ pc = "args" /\ i > Len(argv)
    /\ IF haveCode
       THEN pc' = "ready" /\ memoryLimit' = TRUE
       ELSE Exit /\ UNCHANGED memoryLimit
    /\ UNCHANGED <<fileVars, argv, i, fileSize, haveCode, bytecode, runVars>>

-----------------------------------------------------------------------------
(* JS::Run, which LLVMFuzzerTestOneInput calls with asString = FALSE and an *)
(* application that embeds it may also call with TRUE.                      *)

\* std::to_string of a byte, as digits.
to_string(b) ==
    IF b >= 100 THEN <<b \div 100, (b \div 10) % 10, b % 10>>
    ELSE IF b >= 10 THEN <<b \div 10, b % 10>> ELSE <<b>>

\* Mutant: nothing separates the numbers.
Unseparated(d) == FlattenSeq([k \in DOMAIN d |-> to_string(d[k])])

\* The text between the brackets of "new Uint8Array([...])".
Comma == -1
scriptBody(d) ==
    FlattenSeq([k \in DOMAIN d |-> to_string(d[k]) \o IF k # Len(d) THEN <<Comma>> ELSE <<>>])

\* What JS_Eval makes of that text: the numbers between the commas, as uint8.
Uint8Array(text) ==
    LET next(numbers, c) == IF c = Comma THEN Append(numbers, 0)
                            ELSE [numbers EXCEPT ![Len(numbers)] = 10 * @ + c]
        numbers == IF text = <<>> THEN <<>> ELSE FoldLeft(next, <<0>>, text)
    IN [k \in DOMAIN numbers |-> numbers[k] % 256]

\* As a string: sprintf writes two backslashes, an x and two digits for every
\* byte, of which JS_Eval makes one backslash and three characters.
StringLiteral(d) ==
    FlattenSeq([k \in DOMAIN d |-> <<"\\", "x", d[k] \div 16, d[k] % 16>>])

\* JS::Run: instantiate and configure.
Run(d, s) ==
    /\ pc = "ready" /\ runs < MaxRuns
    /\ data' = d /\ asString' = s
    /\ ret' = nullopt
    /\ IF bytecode = <<>>
       THEN Exit /\ UNCHANGED runtimes
       ELSE pc' = "input" /\ runtimes' = runtimes + 1
    /\ UNCHANGED <<fileVars, initVars, FuzzerInput, program, FuzzerOutput, runs>>

\* A phase of JS::Run ends in an exception: the process exits.
RunFails ==
    /\ pc \in {"input", "eval", "extract"}
    /\ Exit
    /\ UNCHANGED <<fileVars, initVars, runVars>>

\* Specify input.
SpecifyInput ==
    /\ pc = "input"
    /\ FuzzerInput' = IF asString THEN StringLiteral(data) ELSE Uint8Array(scriptBody(data))
    /\ FuzzerOutput' = NotAString
    /\ pc' = "eval"
    /\ UNCHANGED <<fileVars, initVars, runtimes, data, asString, program, ret, runs>>

\* Mutant: the program that was appended last.
EvaluatesLast(o) ==
    /\ pc = "eval"
    /\ program' = bytecode[Len(bytecode)]
    /\ FuzzerOutput' = o
    /\ pc' = "loop"
    /\ UNCHANGED <<fileVars, initVars, runtimes, data, asString, FuzzerInput, ret, runs>>

\* js_std_eval_binary: JS_ReadObject reads one object, the first.
js_std_eval_binary(o) ==
    /\ pc = "eval"
    /\ program' = Head(bytecode)
    /\ FuzzerOutput' = o
    /\ pc' = "loop"
    /\ UNCHANGED <<fileVars, initVars, runtimes, data, asString, FuzzerInput, ret, runs>>

\* js_std_loop: jobs may set FuzzerOutput, and exceptions only end the loop.
js_std_loop(o) ==
    /\ pc = "loop"
    /\ FuzzerOutput' = o
    /\ pc' = "extract"
    /\ UNCHANGED <<fileVars, initVars, runtimes, data, asString, FuzzerInput, program, ret, runs>>

\* JS::Run returns nothing for these.
Empty(v) == v = NotAString \/ v.chars = <<>>

\* The characters of a JSString in memory: bytes, or 16-bit units of which the
\* low byte comes first.
Memory(s) ==
    IF s.is_wide_char
    THEN FlattenSeq([k \in DOMAIN s.chars |-> <<s.chars[k] % 256, s.chars[k] \div 256>>])
    ELSE s.chars

\* JS_JSStringToChar copies as many bytes as the string has characters.
JS_JSStringToChar(s) == SubSeq(Memory(s), 1, Len(s.chars))

\* std::string(const char*) ends at the first 0.
CString(bytes) ==
    IF \E k \in DOMAIN bytes : bytes[k] = 0
    THEN SubSeq(bytes, 1, SelectInSeq(bytes, LAMBDA b : b = 0) - 1)
    ELSE bytes

\* Extract output.
ExtractOutput ==
    /\ pc = "extract"
    /\ ret' = IF Empty(FuzzerOutput) THEN ret
              ELSE CString(JS_JSStringToChar(FuzzerOutput))
    /\ pc' = "free"
    /\ UNCHANGED <<fileVars, initVars, runtimes, data, asString, FuzzerInput, program,
                   FuzzerOutput, runs>>

\* The locals of JS::Run and the globals of its runtime are gone.
LocalsGone ==
    /\ data' = <<>> /\ asString' = FALSE
    /\ FuzzerInput' = <<>> /\ program' = NoFile /\ FuzzerOutput' = NotAString

\* Free, and return to libFuzzer.
Free ==
    /\ pc = "free"
    /\ runtimes' = runtimes - 1
    /\ runs' = runs + 1
    /\ pc' = "ready"
    /\ LocalsGone
    /\ UNCHANGED <<fileVars, initVars, ret>>

-----------------------------------------------------------------------------
ToBytecode == (\E p \in Programs : ToBytecodeOpens(p)) \/ ToBytecodeWrites

LLVMFuzzerInitialize ==
    CompileJavascript \/ LoadFile \/ LoadFileReads \/ OtherArgument \/ ArgumentsDone

RunPhase ==
    \/ RunFails
    \/ SpecifyInput
    \/ \E o \in Strings \cup {NotAString} : js_std_eval_binary(o) \/ js_std_loop(o)
    \/ ExtractOutput
    \/ Free

FzNext ==
    \/ ToBytecode
    \/ LLVMFuzzerInitialize
    \/ \E d \in BoundedSeq(Bytes, MaxInput), s \in BOOLEAN : Run(d, s)
    \/ RunPhase

FzSpec == FzInit /\ [][FzNext]_fzVars

-----------------------------------------------------------------------------
(* Properties.                                                              *)

InRun == {"input", "eval", "loop", "extract", "free"}

\* Every variable holds a value of its type.
FzTypeOK ==
    /\ bcFile \in Seq(Programs) \cup {NoFile}
    /\ writer \in Programs \cup {"idle"} /\ writes \in 0..MaxWrites
    /\ pc \in {"args", "ready", "exit", "terminated"} \cup InRun
    /\ argv \in Seq(Arguments) /\ i \in 1..(Len(argv) + 1)
    /\ fileSize \in Int
    /\ haveCode \in BOOLEAN /\ bytecode \in Seq(Programs) /\ memoryLimit \in BOOLEAN
    /\ runtimes \in Nat /\ data \in Seq(Bytes) /\ asString \in BOOLEAN
    /\ program \in Programs \cup {NoFile}
    /\ FuzzerOutput \in Strings \cup {NotAString}
    /\ ret \in Seq(0..255) \cup {nullopt} /\ runs \in 0..MaxRuns

\* When libFuzzer passes an input there is bytecode to run and a memory limit,
\* whatever the arguments: JS::Run never exits with "No bytecode defined", and
\* between two inputs no runtime is left.
ReadyToRun ==
    pc = "ready" => bytecode # <<>> /\ memoryLimit /\ runtimes = 0

\* The argument that decides: the last --js= or --bc=.
Deciding == SelectLastInSeq(argv, LAMBDA a : a.kind # "other")

\* The program that runs is that of the last --js= or --bc= argument.  For a
\* bytecode file it is the first program ever written to it, also when
\* to_bytecode has appended others since, or does while LoadFile reads.
ProgramSelected ==
    pc \in {"loop", "extract", "free"} =>
        LET a == argv[Deciding] IN
        program = IF a.kind = "--js=" THEN a.file ELSE bcFile[1]

\* The script sees the bytes of the input: as they are in a Uint8Array; as a
\* string, spelled out in four characters each, so that no two inputs look alike.
InputFaithful ==
    pc \in InRun \ {"input"} =>
        IF asString
        THEN /\ Len(FuzzerInput) = 4 * Len(data)
             /\ \A k \in DOMAIN data :
                    16 * FuzzerInput[4 * k - 1] + FuzzerInput[4 * k] = data[k]
        ELSE FuzzerInput = data

\* A string of one-byte characters other than 0 is returned as it is, no string
\* is returned longer than it is, and an empty one is not returned at all.
OutputFaithful ==
    pc = "free" =>
        IF Empty(FuzzerOutput) THEN ret = nullopt
        ELSE LET chars == FuzzerOutput.chars IN
             /\ Len(ret) <= Len(chars)
             /\ ~FuzzerOutput.is_wide_char /\ (\A k \in DOMAIN chars : chars[k] # 0)
                    => ret = chars

\* Whatever the arguments, LLVMFuzzerInitialize ends with a program to run and a
\* limit, and JS::Run runs the program that was selected.
FuzzesTheProgram == FzTypeOK /\ ReadyToRun /\ ProgramSelected

\* The input and the output of JS::Run survive their conversions.
ConversionsFaithful == InputFaithful /\ OutputFaithful
=============================================================================
