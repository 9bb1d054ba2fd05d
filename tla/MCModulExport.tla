----------------------------- MODULE MCModulExport -----------------------------
(* Instances of ModulExport for TLC. *)
EXTENDS ModulExport

CONSTANTS p1, p2, x1

TwoPassages == {p1, p2}
OneInvented == {x1}

\* Modules of at most two objectives.
SmallModules == [kind : {"module"}, hard : BOOLEAN, soft : BOOLEAN,
                 objectives : {{}} \cup {{o, q} : o, q \in Objective}]

Made(name, n, kind) == [ink |-> <<name, 0, 0, n>>, kind |-> kind]
Plain(name, n) == Made(name, n, "plain")
Cell(name, k, i, j, kind) == [ink |-> <<name, k, i, j>>, kind |-> kind]
Row(name, k, i) == <<Cell(name, k, i, 1, "plain"), Cell(name, k, i, 2, "plain")>>
TableOf(name, k, rows) ==
    [caption |-> Cell(name, k, 0, 0, "plain"), columns |-> Row(name, k, 0),
     rows |-> [i \in 1..rows |-> Row(name, k, i)]]

ListSeq == <<"initial_competencies", "facilities", "meaningful_understanding",
             "trigger_questions", "preparation", "enrichment", "remedial",
             "teacher", "students", "tasks">>
ListNames == ToSet(ListSeq)
TextNames == {"title", "topic", "subject", "grade", "time", "model", "target",
              "rationale", "worksheet", "instructions"}

\* A module in which everything is filled in.
Full ==
    [text |-> [n \in TextNames |-> Plain(n, 0)],
     lists |-> [n \in ListNames |-> <<Plain(n, 1), Plain(n, 2)>>],
     goals |-> <<Plain("goal", 1), Plain("goal", 2)>>,
     pancasila |-> <<Row("pancasila", 0, 1)>>,
     glossary |-> <<Row("glossary", 0, 1)>>,
     meetings |-> <<[number |-> 1, title |-> Cell("meeting", 1, 0, 0, "plain"),
                     activities |-> TableOf("activities", 1, 2)]>>,
     assessment |-> [a \in {"diagnostic", "formative", "summative"} |->
                        <<Plain(a, 1), Plain(a, 2), Plain(a, 3)>>],
     overview |-> TableOf("overview", 0, 1), rubric |-> TableOf("rubric", 0, 1),
     reading |-> <<Plain("reading", 1), Plain("reading", 2)>>]

OddKinds == {"blank", "control", "noncharacter"}

\* The forms of a list besides the full one.
Lists(name) ==
    <<<<>>, <<Made(name, 1, "blank")>>, <<Made(name, 1, "blank"), Plain(name, 2)>>,
      <<Made(name, 1, "control"), Plain(name, 2)>>>>

Place(name) == CHOOSE i \in DOMAIN ListSeq : ListSeq[i] = name

\* Every list in each of these forms, with different forms side by side.
Turned(k) ==
    [Full EXCEPT !.lists = [n \in ListNames |->
                                Lists(n)[((Place(n) + k) % 4) + 1]],
                 !.reading = Lists("reading")[k]]

\* The module with every text of one kind.
TextsOf(k) ==
    [Full EXCEPT !.text = [n \in TextNames |->
                              IF n \in {"topic", "subject", "grade", "time", "model"}
                              THEN Plain(n, 0) ELSE Made(n, 0, k)]]

\* The full module, and one with something changed in it.
OneChanged ==
    {Full} \cup {Turned(k) : k \in 1..4} \cup {TextsOf(k) : k \in OddKinds}
    \cup {[Full EXCEPT !.goals[i] = Made("goal", i, k)] : i \in 1..2, k \in OddKinds}
    \cup {[Full EXCEPT !.pancasila = <<>>],
          [Full EXCEPT !.glossary = <<<<Cell("glossary", 0, 1, 1, "control"),
                                        Cell("glossary", 0, 1, 2, "blank")>>>>],
          [Full EXCEPT !.meetings = @ \o <<[number |-> 2, title |-> Cell("meeting", 2, 0, 0, "control"),
                                            activities |-> TableOf("activities", 2, 1)]>>],
          [Full EXCEPT !.overview.rows = <<>>,
                       !.meetings[1].activities.rows[1][1] =
                           Cell("activities", 1, 1, 1, "control")],
          [Full EXCEPT !.glossary = <<>>, !.rubric.caption = Made("rubric", 0, "blank")]}
AllShort ==
    [Full EXCEPT !.text["title"] = Made("title", 0, "blank"),
                 !.text["target"] = Made("target", 0, "blank"),
                 !.text["instructions"] = Made("instructions", 0, "blank"),
                 !.lists = [n \in ListNames |-> <<>>],
                 !.pancasila = <<>>, !.glossary = <<>>, !.reading = <<>>]
AllOdd ==
    [Full EXCEPT !.lists = [n \in ListNames |->
                               <<Made(n, 1, "blank"), Made(n, 2, "control"), Plain(n, 3)>>],
                 !.reading = <<Made("reading", 1, "blank"), Made("reading", 2, "control")>>]

\* A cell too long for a page, and a table too wide for it.
Long == [Full EXCEPT !.rubric.rows[1][2] = Cell("rubric", 0, 1, 2, "long")]
WideRow(i) == Append(Row("overview", 0, i), Cell("overview", 0, i, 3, "plain"))
Wide == [Full EXCEPT !.overview.columns = WideRow(0), !.overview.rows[1] = WideRow(1)]

ManyShapes == OneChanged \cup {AllShort, AllOdd, Long, Wide}

\* An edit may add a cell that has no column.
Ragged == [Full EXCEPT !.overview.rows[1] = Append(@, Cell("overview", 0, 1, 3, "plain"))]
SomeEdits == {AllShort, AllOdd, Ragged, Wide}

Plan == [n \in {"subject", "grade", "topic"} |-> Plain(n, 0)]
List(items) == [form |-> "list", items |-> items]
Item(name, i) == Cell(name, 0, i, 1, "plain")
Sections ==
    [objectives |-> List(<<Item("objectives", 1), Item("objectives", 2)>>),
     materials |-> [form |-> "text", text |-> Plain("materials", 0)],
     activities |-> List(<<[duration |-> Item("activities", 1),
                            text |-> Cell("activities", 0, 1, 2, "plain")],
                           [duration |-> Cell("activities", 0, 2, 1, "blank"),
                            text |-> Cell("activities", 0, 2, 2, "plain")]>>)]
Old(sections) == [plan |-> Plan, title |-> Plain("title", 0), sections |-> sections, empty |-> FALSE]

\* Contents in the first format: with some sections, with a character the core
\* fonts cannot show, and nothing at all.
OldOnes ==
    {Old([n \in S |-> Sections[n]]) : S \in SUBSET DOMAIN Sections}
    \cup {Old([Sections EXCEPT !.materials.text = Made("materials", 0, k)]) :
              k \in {"wide", "noncharacter"}}
    \cup {Old([Sections EXCEPT !.materials = [form |-> "other"]]),
          [Old([n \in {} |-> 0]) EXCEPT !.empty = TRUE]}

=============================================================================
