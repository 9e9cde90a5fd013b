------------------------------- MODULE MCIntake -------------------------------
EXTENDS Intake, TLC

Doc(size, magic, pdf, hash) ==
    [size |-> size, magic |-> magic, pdf |-> pdf, hash |-> hash]

Good == Doc("fits", TRUE, "fine", 1)
Other == Doc("fits", TRUE, "fine", 2)

MCContents == {Good, Other, Doc("empty", FALSE, "unreadable", 3),
               Doc("too large", TRUE, "fine", 4),
               Doc("fits", TRUE, "scripted", 5)}

Upload(content, declared, suffix) ==
    [content |-> content, declared |-> declared, suffix |-> suffix]

MCUploads ==
    {Upload(content, "application/pdf", ".pdf") : content \in MCContents}
    \cup {Upload(Good, d, s) : d \in {"application/pdf", "Application/PDF",
                                      "text/plain", "none"},
                               s \in {".pdf", "other"}}
=============================================================================
