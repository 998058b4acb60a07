------------------------------ MODULE ZimCheck ------------------------------
(***************************************************************************)
(* A run of zimcheck: the function zimcheck(options) of                    *)
(* src/zimcheck/zimcheck.cpp and the ErrorLogger of src/zimcheck/checks.cpp *)
(* that it shares with the worker threads of test_articles().              *)
(*                                                                         *)
(* Which tests fail, how many messages they report and which of them throw *)
(* is up to the archive. How entries are handed to the workers is the      *)
(* subject of TaskDispatcher: here a worker checks entries until the main  *)
(* thread waits for it, and may exit from then on. A message is written    *)
(* with the mutex held, one output operation per step.                     *)
(***************************************************************************)
EXTENDS JsonStream, FiniteSets

CONSTANTS
    NumWorkers,     \* zimcheck --threads
    TestChoices,    \* sets of tests to choose the enabled ones from
    OutputChoices   \* records to choose --json, --quick and --progress from

ASSUME NumWorkersAssumption == NumWorkers \in Nat \ {0}
ASSUME OutputAssumption ==
    OutputChoices \subseteq [json : BOOLEAN, quick : BOOLEAN, progress : BOOLEAN]

Workers == 1..NumWorkers
Main == 0
Threads == Workers \cup {Main}
Nobody == -1

VARIABLES
    enabled_tests, output,      \* the options
    stage,                      \* where the main thread is
    status_code,
    wpc,                        \* where each worker is
    testStatus,                 \* the tests that have not failed
    logStreamOpen, msgMutex, jsonOutputStream,
    toWrite                     \* per thread: what addMsg() has still to write

vars == <<enabled_tests, output, stage, status_code, wpc, testStatus,
          logStreamOpen, msgMutex, jsonOutputStream, toWrite>>
options == <<enabled_tests, output>>
logger == <<testStatus, logStreamOpen, msgMutex, jsonOutputStream, toWrite>>

-----------------------------------------------------------------------------
(* The tests and their messages. *)

TestTypes == {"CHECKSUM", "INTEGRITY", "EMPTY", "METADATA", "FAVICON", "MAIN_PAGE",
              "REDUNDANT", "URL_INTERNAL", "URL_EXTERNAL", "URL_EMPTY", "REDIRECT"}

ASSUME TestAssumption == TestChoices \subseteq SUBSET TestTypes

\* errormapping
LogTag(test) == IF test \in {"REDUNDANT", "URL_EMPTY"} THEN "WARNING" ELSE "ERROR"

\* msgTable, and the kinds of the parameters in the order of their names.
Message(check, params) == [check |-> check, params |-> params]
msgTable ==
    [CHECKSUM         |-> Message("CHECKSUM", <<"string">>),
     MAIN_PAGE        |-> Message("MAIN_PAGE", <<"string">>),
     EMPTY_ENTRY      |-> Message("EMPTY", <<"string">>),
     OUTOFBOUNDS_LINK |-> Message("URL_INTERNAL", <<"string", "string">>),
     ABSPATH_LINK     |-> Message("URL_INTERNAL", <<"string", "string">>),
     DANGLING_LINKS   |-> Message("URL_INTERNAL", <<"list", "string", "string">>),
     EXTERNAL_LINK    |-> Message("URL_EXTERNAL", <<"string", "string">>),
     EMPTY_LINKS      |-> Message("URL_EMPTY", <<"string", "string">>),
     REDUNDANT_ITEMS  |-> Message("REDUNDANT", <<"string", "string">>),
     METADATA         |-> Message("METADATA", <<"string">>),
     REDIRECT_LOOP    |-> Message("REDIRECT", <<"string">>),
     MISSING_FAVICON  |-> Message("FAVICON", <<>>)]
MsgIds == DOMAIN msgTable

\* The messages a worker may report about an item.
ArticleMessages ==
    {id \in {"EMPTY_ENTRY"} : "EMPTY" \in enabled_tests} \cup
    {id \in {"OUTOFBOUNDS_LINK", "ABSPATH_LINK", "EMPTY_LINKS", "DANGLING_LINKS"} :
        "URL_INTERNAL" \in enabled_tests} \cup
    {id \in {"EXTERNAL_LINK"} : "URL_EXTERNAL" \in enabled_tests}

\* The tests of the opened archive, in order, and the end of the logs.
Stages == <<"checksum", "metadata", "favicon", "main_page", "articles", "redundant",
            "redirect", "end_logs">>

IsEnabled(test) == test \in enabled_tests

ArticleTests == {"URL_INTERNAL", "URL_EXTERNAL", "REDUNDANT", "EMPTY"}

IsRun(s) ==
    CASE s = "checksum"  -> IsEnabled("CHECKSUM") /\ ~IsEnabled("INTEGRITY")
      [] s = "metadata"  -> IsEnabled("METADATA")
      [] s = "favicon"   -> IsEnabled("FAVICON")
      [] s = "main_page" -> IsEnabled("MAIN_PAGE")
      [] s = "articles"  -> enabled_tests \cap ArticleTests # {}
      [] s = "redundant" -> IsEnabled("REDUNDANT")
      [] s = "redirect"  -> IsEnabled("REDIRECT")
      [] s = "end_logs"  -> TRUE

\* The first stage at or after position n that the options ask for.
StageFrom(n) ==
    Stages[CHOOSE i \in n..Len(Stages) :
              IsRun(Stages[i]) /\ \A j \in n..(i - 1) : ~IsRun(Stages[j])]

StageAfter(s) == StageFrom(1 + CHOOSE i \in DOMAIN Stages : Stages[i] = s)

\* What the main thread itself may report, and how often in its stage.
MainMessage ==
    [checksum |-> "CHECKSUM", metadata |-> "METADATA", favicon |-> "MISSING_FAVICON",
     main_page |-> "MAIN_PAGE", redundant |-> "REDUNDANT_ITEMS",
     redirect |-> "REDIRECT_LOOP"]

ReportsOnce(s) == s \in {"checksum", "favicon", "main_page"}

-----------------------------------------------------------------------------

TypeOK ==
    /\ enabled_tests \in TestChoices /\ output \in OutputChoices
    /\ stage \in ToSet(Stages) \cup
         {"header", "integrity", "open", "iterate", "join", "unwind", "status",
          "destroy", "exited", "terminated"}
    /\ status_code \in {"PASS", "FAIL", "EXCEPTION"}
    /\ wpc \in [Workers -> {"fetch", "check", "exited"}]
    /\ testStatus \in SUBSET TestTypes
    /\ logStreamOpen \in BOOLEAN
    /\ msgMutex \in Threads \cup {Nobody}
    /\ jsonOutputStream.nesting \in Seq(ScopeInfo)
    /\ jsonOutputStream.text.expects \in Expectations
    /\ toWrite \in [Threads -> Seq({"startObject", "endObject", "string", "list", "text"})]

\* ErrorLogger(): all tests have passed and the document is open.
Init ==
    /\ enabled_tests \in TestChoices /\ output \in OutputChoices
    /\ stage = "header"
    /\ status_code = "PASS"
    /\ wpc = [w \in Workers |-> "exited"]
    /\ testStatus = TestTypes
    /\ logStreamOpen = FALSE
    /\ msgMutex = Nobody
    /\ jsonOutputStream = IF output.json THEN StartObject(OutputStream) ELSE OutputStream
    /\ toWrite = [t \in Threads |-> <<>>]

-----------------------------------------------------------------------------
(* ErrorLogger. *)

\* startLogStream() and endLogStream() on a stream js.
LogsStarted(js) == IF output.json /\ ~logStreamOpen THEN StartArray(Key(js)) ELSE js
LogsEnded(js) == IF output.json /\ logStreamOpen THEN EndArray(js) ELSE js

JsonMessage(id) ==
    <<"startObject", "string", "string", "string">> \o msgTable[id].params
        \o <<"endObject">>

Write(js, op) ==
    CASE op = "startObject" -> StartObject(js)
      [] op = "endObject" -> EndObject(js)
      [] op = "string" -> StringProperty(js)
      [] op = "list" -> ListProperty(js, 2)
      [] op = "text" -> js

\* Mutant of AddMsg: the mutex is not waited for.
AddMsgUnlocked(t, id) ==
    /\ toWrite[t] = <<>>
    /\ msgMutex' = t
    /\ testStatus' = testStatus \ {msgTable[id].check}
    /\ toWrite' = [toWrite EXCEPT ![t] = IF output.json THEN JsonMessage(id) ELSE <<"text">>]
    /\ UNCHANGED <<logStreamOpen, jsonOutputStream>>

\* addMsg() locks the mutex and records the failure ...
AddMsg(t, id) ==
    /\ toWrite[t] = <<>>
    /\ msgMutex = Nobody
    /\ msgMutex' = t
    /\ testStatus' = testStatus \ {msgTable[id].check}
    /\ toWrite' = [toWrite EXCEPT ![t] = IF output.json THEN JsonMessage(id) ELSE <<"text">>]
    /\ UNCHANGED <<logStreamOpen, jsonOutputStream>>

\* ... writes the message piece by piece and unlocks the mutex after the last.
WriteMsg(t) ==
    /\ toWrite[t] # <<>>
    /\ jsonOutputStream' = Write(jsonOutputStream, Head(toWrite[t]))
    /\ toWrite' = [toWrite EXCEPT ![t] = Tail(@)]
    /\ msgMutex' = IF Len(toWrite[t]) = 1 THEN Nobody ELSE msgMutex
    /\ UNCHANGED <<options, stage, status_code, wpc, testStatus, logStreamOpen>>

overallStatus == \A test \in TestTypes : LogTag(test) = "ERROR" => test \in testStatus

-----------------------------------------------------------------------------
(* The main thread. *)

Goto(s) == stage' = s

\* zimcheck_version, checks, quick and file_name
Header ==
    /\ stage = "header"
    /\ Goto(IF IsEnabled("INTEGRITY") THEN "integrity" ELSE "open")
    /\ LET checks == ListProperty(StringProperty(jsonOutputStream),
                                  Cardinality(enabled_tests))
           quick == IF output.quick THEN BoolProperty(checks) ELSE checks
       IN  jsonOutputStream' = IF output.json THEN StringProperty(quick)
                                              ELSE jsonOutputStream
    /\ UNCHANGED <<options, status_code, wpc, testStatus, logStreamOpen, msgMutex, toWrite>>

\* Mutant of TestIntegrity: the result does not decide what is run next.
TestIntegrityAndGoOn ==
    /\ stage = "integrity"
    /\ Goto("open")
    /\ \/ UNCHANGED testStatus
       \/ testStatus' = testStatus \ {"INTEGRITY"}
    /\ UNCHANGED <<options, status_code, wpc, logStreamOpen, msgMutex,
                   jsonOutputStream, toWrite>>

\* An archive with a damaged structure is not opened: its logs are empty.
TestIntegrity ==
    /\ stage = "integrity"
    /\ \/ Goto("open") /\ UNCHANGED <<testStatus, jsonOutputStream>>
       \/ /\ Goto("status")
          /\ testStatus' = testStatus \ {"INTEGRITY"}
          /\ jsonOutputStream' =
               IF output.json THEN EndArray(LogsStarted(jsonOutputStream))
                              ELSE jsonOutputStream
    /\ UNCHANGED <<options, status_code, wpc, logStreamOpen, msgMutex, toWrite>>

\* file_uuid and the start of the logs
OpenArchive ==
    /\ stage = "open"
    /\ Goto(StageFrom(1))
    /\ jsonOutputStream' =
         IF output.json THEN LogsStarted(StringProperty(jsonOutputStream))
                        ELSE jsonOutputStream
    /\ logStreamOpen' = output.json
    /\ UNCHANGED <<options, status_code, wpc, testStatus, msgMutex, toWrite>>

MainReports ==
    /\ stage \in DOMAIN MainMessage
    /\ AddMsg(Main, MainMessage[stage])
    /\ Goto(IF ReportsOnce(stage) THEN StageAfter(stage) ELSE stage)
    /\ UNCHANGED <<options, status_code, wpc>>

TestDone ==
    /\ stage \in DOMAIN MainMessage
    /\ toWrite[Main] = <<>>
    /\ Goto(StageAfter(stage))
    /\ UNCHANGED <<options, status_code, wpc, logger>>

\* test_articles() starts its workers, hands them the entries and waits.
StartWorkers ==
    /\ stage = "articles"
    /\ toWrite[Main] = <<>>
    /\ Goto("iterate")
    /\ wpc' = [w \in Workers |-> "fetch"]
    /\ UNCHANGED <<options, status_code, logger>>

EndOfEntries ==
    /\ stage = "iterate"
    /\ Goto("join")
    /\ UNCHANGED <<options, status_code, wpc, logger>>

AllJoined == \A w \in Workers : wpc[w] = "exited"

\* Mutant of Join: finish() does not wait for the workers.
JoinNobody ==
    /\ stage = "join"
    /\ Goto(StageAfter("articles"))
    /\ UNCHANGED <<options, status_code, wpc, logger>>

Join ==
    /\ stage = "join"
    /\ AllJoined
    /\ Goto(StageAfter("articles"))
    /\ UNCHANGED <<options, status_code, wpc, logger>>

\* A std::exception in the try block. If there are workers the unwinding of
\* the stack waits for them before the exception is caught.
Throws ==
    /\ stage \in DOMAIN MainMessage \cup {"integrity", "open", "iterate"}
    /\ toWrite[Main] = <<>>
    /\ Goto(IF stage = "iterate" THEN "unwind" ELSE "destroy")
    /\ status_code' = "EXCEPTION"
    /\ UNCHANGED <<options, wpc, logger>>

\* Mutant of Unwind: the destructor does not wait for the workers.
UnwindAtOnce ==
    /\ stage = "unwind"
    /\ Goto("destroy")
    /\ UNCHANGED <<options, status_code, wpc, logger>>

Unwind ==
    /\ stage = "unwind"
    /\ AllJoined
    /\ Goto("destroy")
    /\ UNCHANGED <<options, status_code, wpc, logger>>

EndLogs ==
    /\ stage = "end_logs"
    /\ toWrite[Main] = <<>>
    /\ Goto("status")
    /\ jsonOutputStream' = LogsEnded(jsonOutputStream)
    /\ logStreamOpen' = FALSE
    /\ UNCHANGED <<options, status_code, wpc, testStatus, msgMutex, toWrite>>

\* Mutant of Status: a damaged archive has a status code of its own.
StatusOfDamaged ==
    /\ stage = "status"
    /\ Goto("destroy")
    /\ status_code' = IF overallStatus THEN "PASS"
                      ELSE IF "INTEGRITY" \in testStatus THEN "FAIL" ELSE "DAMAGED"
    /\ jsonOutputStream' =
         IF output.json THEN BoolProperty(jsonOutputStream) ELSE jsonOutputStream
    /\ UNCHANGED <<options, wpc, testStatus, logStreamOpen, msgMutex, toWrite>>

Status ==
    /\ stage = "status"
    /\ Goto("destroy")
    /\ status_code' = IF overallStatus THEN "PASS" ELSE "FAIL"
    /\ jsonOutputStream' =
         IF output.json THEN BoolProperty(jsonOutputStream) ELSE jsonOutputStream
    /\ UNCHANGED <<options, wpc, testStatus, logStreamOpen, msgMutex, toWrite>>

\* ~ErrorLogger(), and main() returns status_code.
Destroy ==
    /\ stage = "destroy"
    /\ Goto("exited")
    /\ jsonOutputStream' =
         IF output.json THEN EndObject(LogsEnded(jsonOutputStream)) ELSE jsonOutputStream
    /\ logStreamOpen' = FALSE
    /\ UNCHANGED <<options, status_code, wpc, testStatus, msgMutex, toWrite>>

-----------------------------------------------------------------------------
(* The workers: ArticleChecker::check() of one entry after the other. *)

\* It begins with progress.report(), which prints to std::cout now and then and
\* knows neither the mutex of the messages nor the JSON stream.
StartCheck(w) ==
    /\ stage \in {"iterate", "join", "unwind"}
    /\ wpc[w] = "fetch"
    /\ wpc' = [wpc EXCEPT ![w] = "check"]
    /\ \/ UNCHANGED jsonOutputStream
       \/ /\ output.progress
          /\ jsonOutputStream' =
               IF output.json THEN Put(jsonOutputStream, "noise") ELSE jsonOutputStream
    /\ UNCHANGED <<options, stage, status_code, testStatus, logStreamOpen, msgMutex,
                   toWrite>>

WorkerReports(w) ==
    /\ wpc[w] = "check"
    /\ \E id \in ArticleMessages : AddMsg(w, id)
    /\ UNCHANGED <<options, stage, status_code, wpc>>

EndCheck(w) ==
    /\ wpc[w] = "check"
    /\ toWrite[w] = <<>>
    /\ wpc' = [wpc EXCEPT ![w] = "fetch"]
    /\ UNCHANGED <<options, stage, status_code, logger>>

\* No handler around the thread: std::terminate(), without ~ErrorLogger().
WorkerThrows(w) ==
    /\ wpc[w] = "check"
    /\ toWrite[w] = <<>>
    /\ Goto("terminated")
    /\ UNCHANGED <<options, status_code, wpc, logger>>

WorkerExits(w) ==
    /\ stage \in {"join", "unwind"}
    /\ wpc[w] = "fetch"
    /\ wpc' = [wpc EXCEPT ![w] = "exited"]
    /\ UNCHANGED <<options, stage, status_code, logger>>

-----------------------------------------------------------------------------

Gone == stage \in {"exited", "terminated"}

Finished == Gone /\ UNCHANGED vars

Next ==
    \/ /\ ~Gone
       /\ \/ Header \/ TestIntegrity \/ OpenArchive
          \/ MainReports \/ TestDone
          \/ StartWorkers \/ EndOfEntries \/ Join
          \/ Throws \/ Unwind
          \/ EndLogs \/ Status \/ Destroy
          \/ \E t \in Threads : WriteMsg(t)
          \/ \E w \in Workers :
                \/ StartCheck(w) \/ WorkerReports(w) \/ EndCheck(w)
                \/ WorkerThrows(w) \/ WorkerExits(w)
    \/ Finished

Spec == Init /\ [][Next]_vars

-----------------------------------------------------------------------------
(* Properties. *)

\* "-J --json  Output in JSON format": what a reader has seen so far is the
\* beginning of a JSON document, whichever threads write and whatever throws,
\* and the document is complete when zimcheck exits.
OutputIsJson ==
    output.json =>
        /\ jsonOutputStream.text.expects # "error"
        /\ stage = "exited" => jsonOutputStream.text.expects = "nothing"

\* Messages are written into the array "logs" of the document and nowhere
\* else, and the flag of ErrorLogger tells whether that array is open.
MessagesGoToLogs ==
    output.json =>
        LET scopes == jsonOutputStream.nesting
            inLogs == Len(scopes) >= 2 /\ scopes[2].type = "ARRAY"
        IN  /\ logStreamOpen <=> inLogs
            /\ msgMutex # Nobody => inLogs

\* The status code is PASS exactly if no test of level ERROR has failed and
\* nothing was thrown; no message arrives after it was computed.
StatusIsSound ==
    stage = "exited" =>
        /\ msgMutex = Nobody
        /\ status_code = "PASS" => TestTypes \ testStatus \subseteq {"REDUNDANT", "URL_EMPTY"}
        /\ status_code = "FAIL" => \E test \in TestTypes \ testStatus : LogTag(test) = "ERROR"

\* Nothing is reported about the contents of an archive whose structure is
\* damaged: neither a message nor the checksum that the integrity test covers.
DamagedArchiveIsNotRead ==
    "INTEGRITY" \notin testStatus => testStatus = TestTypes \ {"INTEGRITY"}

=============================================================================
