------------------------------ MODULE MCLedger ------------------------------
(* Instances of Ledger for TLC.  Numbers are four bits wide: -8 .. 7.      *)
EXTENDS Ledger

MCSubjects  == {"Kaelen", "Kaelen Vord", "Ghost"}
MCCollision == <<"Kaelen", "Kaelen Vord">>
Nobody      == {}
OtherName   == {"Kaelen"}
Narrow      == -8
Items       == {"inv:potion"}
Slots       == {"equip:head"}
WrongSlots  == {"equip:third_arm"}
Wrong       == {"luck"}
None        == {}
Helmet      == {"a helmet"}

Change(s, f, o, n) == [subject |-> s, field |-> f, op |-> o, num |-> n, txt |-> "NULL"]
Wear(o, t)         == [subject |-> "Kaelen Vord", field |-> "equip:head", op |-> o,
                       num |-> NoNum, txt |-> t]
Vord(f, o, n)      == Change("Kaelen Vord", f, o, n)

(* Damage, healing, a maximum, growth and an attempt to lose it; the       *)
(* widest numbers; what the gate turns away; a second name of the          *)
(* protagonist and a name of nobody.                                       *)
MCProposals ==
  { Vord("hp", "add", 5), Vord("hp", "sub", 4), Vord("max_hp", "set", 6),
    Vord("level", "set", 2), Vord("level", "set", 1),
    Vord("xp", "add", 7), Vord("xp", "sub", Narrow), Change("Kaelen", "xp", "set", 1),
    Vord("inv:potion", "add", 2), Vord("inv:potion", "sub", 3),
    Change("Ghost", "xp", "add", 1),
    Vord("equip:third_arm", "set", 1), Vord("gold", "add", NoNum),
    Wear("set", "a helmet"), Wear("add", "a helmet") }
=============================================================================
