------------------------------ MODULE MCTraverse ------------------------------
EXTENDS Traverse

MCRow == 1 .. 4

\* Every scan; scans and walks whose filter ends in an error at the second row;
\* walks over the btree with bounds at the second and third key.
Scans ==
  [op : {"find", "remove"}, by : {"scan"}, reverse : {FALSE},
   from : {NoRow}, to : {NoRow},
   filter : {MCRow, MCRow \ {2}}, fails : {{}}, skip : {0, 1}, limit : {All, 2}]

Failing ==
  [op : {"find", "remove"}, by : {"scan", "btree"}, reverse : {FALSE},
   from : {NoRow}, to : {NoRow},
   filter : {MCRow}, fails : {{2}}, skip : {0}, limit : {All}]

Walks ==
  [op : {"find", "remove"}, by : {"btree"}, reverse : BOOLEAN,
   from : {NoRow, 2}, to : {NoRow, 3},
   filter : {MCRow}, fails : {{}}, skip : {0, 1}, limit : {All, 2}]

Looks ==
  [op : {"find", "remove"}, by : {"map"}, reverse : {FALSE},
   from : {2}, to : {NoRow}, filter : {MCRow, {}}, fails : {{}}, skip : {0, 1}, limit : {All, 0}]

\* A document looked up by its id.
Gets ==
  [op : {"get"}, by : {"map"}, reverse : {FALSE},
   from : {2}, to : {NoRow}, filter : {{2}}, fails : {{}}, skip : {0}, limit : {1}]

MCRequest == Scans \cup Failing \cup Walks \cup Looks \cup Gets
=============================================================================
