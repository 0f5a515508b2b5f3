-------------------------- MODULE MCLeadAdmission --------------------------
(* Instances of LeadAdmission for TLC: a draft that nothing is wrong with, *)
(* those that differ from it in one respect, and some that do in two.      *)
EXTENDS LeadAdmission, FiniteSets

\* Too long ones can come only from what fills in forms: the input has a
\* maxLength (LeadForm.tsx:94).
Chars(units, points, stripped) ==
    [units |-> units, points |-> points, stripped |-> stripped]

Fine == [name |-> Chars(1, 1, 1), email |-> {"form", "api"}, website |-> FALSE,
         stem |-> "some", ext |-> "pdf", tail |-> FALSE,
         content |-> "pdf", size |-> 1]

Odd ==
    {d \in [name : {Chars(1, 1, 1), Chars(0, 0, 0),
                    Chars(1, 1, 0),      \* a control character
                    Chars(MaxName, MaxName, 1),
                    Chars(MaxName + 1, MaxName + 1, MaxName + 1),
                    Chars(MaxName + 1, MaxName, MaxName)},
            email : SUBSET {"form", "api"},
            website : BOOLEAN,
            stem : {"some", "none", "long"},
            ext : {"pdf", "docx", "other"},
            tail : BOOLEAN,
            content : {"pdf", "other"},
            size : {0, 1, MaxBytes, MaxBytes + 1, MaxBytes + Overhead + 1}] :
        Cardinality({x \in DOMAIN Fine : d[x] # Fine[x]}) <= 1}

AllDrafts ==
    Odd \cup {[Fine EXCEPT !.ext = "docx", !.content = "docx"],
              [Fine EXCEPT !.website = TRUE, !.content = "other"],
              [Fine EXCEPT !.name = Chars(1, 1, 0), !.website = TRUE],
              [Fine EXCEPT !.name = Chars(0, 0, 0), !.ext = "other"]}

=============================================================================
