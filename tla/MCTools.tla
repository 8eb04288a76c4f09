------------------------------ MODULE MCTools -------------------------------
(***************************************************************************)
(* The parts that a research run calls to search, fetch, read and cite,    *)
(* for TLC, and small inputs for them: hosts, result rows, addresses,      *)
(* elements of pages, bodies, documents, questions and answers.            *)
(***************************************************************************)
EXTENDS WebSearch, WebFetch, PageExtraction, Grounding, Planner

CONSTANTS com, good, bad, local   \* labels of hosts

\* Hosts: a site, a denied one below it, a local name; the address 2 is denied, 3 private.
MCDenied == {<<com, bad>>, <<2>>}
MCAllowed == {}
MCLocal == {<<local>>}
MCCategories == [d \in {<<com>>, <<com, good>>} |-> IF d = <<com>> THEN "adult" ELSE "news"]

MCBackends == <<"first", "second">>

Link(host, port, spelling) ==
    [shape |-> "link", host |-> host, port |-> port, user |-> FALSE, page |-> 1, written |-> spelling]

MCRows ==
    {[shape |-> "junk"], Link(<<com, good>>, 80, 1), Link(<<com, good>>, 80, 2),
     Link(<<com, bad, good>>, 80, 1), Link(<<com>>, 443, 1)}

Url(host, port) == [valid |-> TRUE, host |-> host, port |-> port]
MCUrls ==
    {[valid |-> FALSE, host |-> <<>>, port |-> 80], Url(<<com, good>>, 80), Url(<<com, bad, good>>, 80),
     Url(<<local>>, 80), Url(<<com, good>>, 8080), Url(<<1>>, 80), Url(<<3>>, 80)}

\* Elements: tables, blocks with dates, and blocks with void and hidden elements.
Element(tag) == [tag |-> tag, hidden |-> FALSE]
HiddenElement(tag) == [tag |-> tag, hidden |-> TRUE]
MCVocabularies ==
    {{Element("table"), Element("tr"), Element("td"), HiddenElement("div"), Element("div")},
     {Element("h"), Element("li"), Element("p"), Element("time"), Element("date")},
     {HiddenElement("h"), Element("li"), Element("p"), HiddenElement("div"), Element("br")}}

\* Bodies: three parts of which the library keeps some, plain text, and PDF pages.
MCSizes == [p \in {"p1", "p2", "p3"} |-> IF p = "p3" THEN 2 ELSE 1]

PdfPage(stream, lines) == [stream |-> stream, lines |-> lines]
MCPages ==
    {PdfPage(s, l) : s \in {0, 1},
        l \in {<<>>, <<"text">>, <<"heading", "table", "table">>, <<"text", "blank", "table">>,
               <<"heading", "text", "heading">>}}

MCBodies ==
    {[kind |-> "markup", bytes |-> 1, title |-> t, parsed |-> TRUE, kept |-> k, found |-> f] :
        t \in {0, 1}, k \in SUBSET {"p1", "p2"}, f \in SeqOf({"p1", "p2", "p3"}, 3)}
    \cup {[kind |-> k, bytes |-> b, title |-> 0, chars |-> 3, parsed |-> FALSE,
           encrypted |-> FALSE, pages |-> <<>>] : k \in {"markup", "text", "pdf"}, b \in {1, 2}}
    \cup {[kind |-> "text", bytes |-> 1, chars |-> n, parsed |-> TRUE] : n \in 0..7}
    \cup {[kind |-> "pdf", bytes |-> 1, title |-> t, encrypted |-> e, parsed |-> TRUE, pages |-> p] :
            t \in {0, 1}, e \in BOOLEAN,
            p \in SeqOf(MCPages, 2) \cup {[i \in 1..3 |-> PdfPage(0, <<"text">>)]}}

\* Documents: two mirrors, one with sections, one without a word in its title, one whose
\* chunks repeat; words of one to three letters.
Doc(n, url, title, blocks, standing) ==
    [number |-> n, url |-> url, title |-> title, authority |-> standing, fresh |-> standing,
     blocks |-> blocks,
     text |-> Join([i \in DOMAIN blocks |-> Join(blocks[i].parts)])]
Block(text, section) == [parts |-> <<text>>, section |-> section]

Mirrored == <<"a", " ", "b", "c", "b", " ", "b">>
MCDocuments ==
    {Doc(1, "u1", <<"a">>, <<Block(Mirrored, <<>>)>>, 0),
     Doc(2, "u2", <<"c">>, <<Block(Mirrored, <<>>)>>, 1),
     Doc(3, "u3", <<"b">>, <<Block(<<"a", " ", "b">>, <<"b">>), Block(<<"c">>, <<"b">>),
                             Block(<<"b", " ", "c">>, <<"c">>)>>, 0),
     Doc(4, "u4", <<".">>, <<Block(<<"a", "b", " ", "c", ".", " ", "b">>, <<>>)>>, 0),
     Doc(5, "u5", <<"a">>, <<Block(<<"c", " ", "b", "c", " ", "b">>, <<>>),
                             Block(<<"c", " ", "b", "c", " ", "c">>, <<>>)>>, 0)}

MCAddresses == {"u1", "u2", "u3", "u4", "u5"}
MCClaims ==
    {<<"a", " ", "b", "c", "b">>, <<"a", " ", "b", "c">>, <<"b">>, <<"a", "b", " ", "c">>,
     <<"a", " ", "b">>, <<"b", " ", "c">>, <<"a", " ", "b", " ", "c">>}

MCRequests ==
    {[words |-> w, first |-> f, only |-> o, sources |-> n] :
        w \in {{<<"a">>}, {<<"b">>, <<"c">>}}, f \in BOOLEAN, o \in {{}, {"u3"}}, n \in {1, 2}}

Citation(id, url, claim) == [id |-> id, url |-> url, claim |-> claim]
MCAnswers ==
    {<<>>}
    \cup {<<Citation(a, a, c)>> : a \in MCAddresses, c \in MCClaims}
    \cup {<<Citation(a, "u1", <<"b">>)>> : a \in MCAddresses}
    \cup {<<Citation(a, a, <<"b">>), Citation(b, b, c)>> :
            a, b \in MCAddresses, c \in {<<"b">>, <<"b", " ", "c">>}}

MCTimes == {-1, 1, 2}

\* Requests and what is drafted for them: a question, one that names a page, one for
\* research, one that is too long to search for, small talk, and one that is forbidden.
Asked(text, tokens, marks) ==
    [text |-> text, tokens |-> tokens, web |-> "web" \in marks, explicit |-> "explicit" \in marks,
     question |-> "question" \in marks, chat |-> "chat" \in marks, long |-> "long" \in marks]

MCPlanRequests ==
    {Asked({"what", "rotor", "ai"}, 3, {"question"}),
     Asked({"rotor", "steel"}, 2, {"web"}),
     Asked({"find", "rotor"}, 2, {"explicit"}),
     Asked({"what", "rotor", "steel"}, 60, {"question", "long"}),
     Asked({"hello"}, 1, {"chat"}),
     Asked({"hello", "what"}, 2, {"chat", "question"}),
     Asked({"rotor", "secret"}, 2, {})}

MCContexts ==
    {[words |-> {}, tokens |-> 0], [words |-> {"steel"}, tokens |-> 2],
     [words |-> {"steel", "what"}, tokens |-> 9]}

MCTexts ==
    {{"rotor"}, {"rotor", "steel"}, {"rotor", "2024"}, {"hello"}, {"what", "rotor", "secret"},
     {"rotor", "wing"}, {"artificial", "intelligence"}}

MCDrafts ==
    {[category |-> c, requires |-> r, focus |-> f, plan |-> p, fits |-> b, offers |-> o] :
        c \in {"research", "reply", "clarification"}, r, b \in BOOLEAN, f \in MCTexts,
        p \in {{}, {{"rotor", "2024"}, {"steel"}}, {{"secret"}}},
        o \in {NoOffers, [given |-> TRUE, offer |-> {"steel"}, followUps |-> {{"rotor", "steel"}}]}}

MCAlike == {<<"rotor", "rotors">>}
MCExpansions == "ai" :> {"artificial", "intelligence"}

MCSentences == {{"rotor", "steel"}, {"rotors"}, {"2024", "wing"}, {"wing", "steel"}, {"ignore", "rules", "rotor"}}
MCScopedAnswers ==
    {[claims |-> <<[sentences |-> s, positional |-> p]>>, offers |-> NoOffers] :
        s \in {<<a>> : a \in MCSentences} \cup {<<a, b>> : a, b \in MCSentences}, p \in BOOLEAN}

toolVars == <<search, fetchVars, pageVars, extractionVars, round, planner>>

\* A behaviour with another focus than the page reads no page, whatever its vocabulary.
ToolsInit(focus) ==
    /\ SearchInit /\ FetchInit /\ PageInit /\ ExtractionInit /\ RoundInit /\ PlannerInit
    /\ focus # "page" => page.words = CHOOSE v \in Vocabularies : TRUE

ToolsNext(focus) ==
    \/ focus = "search" /\ SearchNext /\ UNCHANGED <<fetchVars, pageVars, extractionVars, round, planner>>
    \/ focus = "fetch" /\ FetchNext /\ UNCHANGED <<search, pageVars, extractionVars, round, planner>>
    \/ focus = "page" /\ PageNext /\ UNCHANGED <<search, fetchVars, extractionVars, round, planner>>
    \/ focus = "extraction" /\ ExtractionNext /\ UNCHANGED <<search, fetchVars, pageVars, round, planner>>
    \/ focus = "grounding" /\ RoundNext /\ UNCHANGED <<search, fetchVars, pageVars, extractionVars, planner>>
    \/ focus = "plan" /\ PlannerNext
       /\ UNCHANGED <<search, fetchVars, pageVars, extractionVars, round>>
=============================================================================
