-------------------------- MODULE MCProductCatalog --------------------------
(* Constants of the TLC run over ProductCatalog: one command of each kind, *)
(* beside creations that need what it may delete.  At first a category is  *)
(* empty and a dish and a setmeal have no category; all else is created.   *)
EXTENDS ProductCatalog

CONSTANTS c1, c2, d1, d2, m1, m2, Node, w1

Do(op, x, c, used) == [op |-> op, x |-> x, home |-> c, uses |-> used]

CategoriesAndDishes ==
  {Do("CreateCategory", c2, All, {}), Do("UpdateCategory", c1, All, {}),
   Do("ChangeCategoryStatus", c1, All, {}), Do("DeleteCategory", c1, All, {}),
   Do("CreateDish", d2, c1, {}), Do("UpdateDish", d1, c1, {}),
   Do("ChangeDishStatus", d1, All, {}), Do("DeleteDish", d1, All, {})}

SetmealChanges ==
  {Do("CreateSetmeal", m2, c1, {d1}), Do("UpdateSetmeal", m1, c1, {d1}),
   Do("ChangeSetmealStatus", m1, All, {}), Do("DeleteSetmeal", m1, All, {})}

ByWriter == [w \in Writers |-> IF w = w1 THEN CategoriesAndDishes \cup SetmealChanges
   ELSE {Do("CreateSetmeal", m2, c1, {d1}), Do("CreateDish", d2, c1, {})}]

OfKindIn(kind, c) == [kind |-> kind, home |-> c]
FiveLists ==
  {OfKindIn("category", All), OfKindIn("dish", All), OfKindIn("dish", c1),
   OfKindIn("setmeal", All), OfKindIn("setmeal", c1)}
OneList == {OfKindIn("setmeal", c1)}

AtFirst == {c1, d1, m1}
InNone == [p \in Products |-> All]
WithNone == [m \in Setmeals |-> {}]
OneNode == [r \in Readers |-> Node]
=============================================================================
