------------------------------ MODULE MCFiles ------------------------------
EXTENDS UserTests

TestNames == {"iputtest", "exitiputtest", "openiputtest", "opentest", "writetest", "writetest1",
    "createtest", "dirtest", "sharedfd", "fourfiles", "createdelete", "unlinkread", "linktest",
    "concreate", "linkunlink", "bigdir", "subdir", "bigwrite", "bigfile", "fourteen", "rmdot",
    "dirfile", "iref", "stressfs", "initmain"}
AllTests == TestNames \cup {"any"}
DeadlockTest == {"linkunlink"}
OrphanTest == {"orphan"}
SomeCalls == {exit, mkdir(f("d")), creat(f("a"), O_RDWR), unlink(f("README")), unlink(f("d")),
    link(f("README"), Rel(<<"d", "a">>)), link(f("README"), f("a")), chdir(f("d")), close(0),
    write(0, <<1, 2, 3>>), write(0, <<>>), fstat(0)}
=============================================================================
