------------------------------ MODULE MCBuffer ------------------------------
(* Buffer with kCheapPrepend 2 and kInitialSize 2 so that a few bytes      *)
(* already fill the vector: appends grow it, retrieves open a gap in front *)
(* that the next append slides over, and a readv spills into extrabuf.     *)
EXTENDS Buffer
====
